---------------------------- MODULE Spec2Model ----------------------------
(* Verification model of the support-chatbot backend:                      *)
(*   - the /api/generate handler of modules/routers/api.py together with   *)
(*     the rule-based classifier of sensitive_query_detector.py,           *)
(*   - the CircuitBreaker of main.py,                                      *)
(*   - the MemoryCache of modules/cache.py.                                *)
(* Each component has its own specification over the shared variables.     *)
EXTENDS Integers, Sequences, FiniteSets, TLC

VARIABLES
    now,                \* time.time(), in whole seconds
    \* ---- /api/generate handler (modules/routers/api.py)
    hpc,                \* position of the handler coroutine
    req,                \* the request being handled
    sens,               \* sensitivity_check (classifier result) or NoSens
    engineCalls,        \* calls of get_complete_discovery_answer made for this request
    ragResult,          \* discovery_result of the RAG-first attempt (line 119)
    disc,               \* discovery_result bound by the latest call
    resp,               \* what the handler returned / raised
    \* ---- CircuitBreaker (main.py)
    cbState, failure_count, last_failure_time,
    cpc,                \* per caller: position inside CircuitBreaker.wrapper
    trial,              \* callers admitted while the breaker was HALF_OPEN
    run,                \* failures of the wrapped operation since its last success
    \* ---- MemoryCache (modules/cache.py)
    cache,              \* self.cache: dict in insertion order
    lastCall,           \* the latest cache call since the clock moved, with its result
    live,               \* per key: what the latest set(k, v, ttl) stored, unless capacity
                        \* eviction or clear() has removed it since
    tpc, tloc,          \* per thread: position and locals inside get / set
    \* ---- classifier called on its own
    cq,                 \* the query classified last: its text and what it contains
    cres,               \* the classification returned for cq
    \* ---- retry_async under a CircuitBreaker (main.py)
    rfunc,              \* the decorated function under study
    rpc,                \* per caller: position inside the two wrappers
    attempt,            \* per caller: the loop variable of retry_async
    invocations,        \* per caller: invocations of the function made by this call
    last_exception,     \* per caller: how the latest invocation failed
    \* ---- fact store and the handler of main.py
    store,              \* the rows of the triple table, as the strings they format to
    lookup,             \* the latest fact store lookup and what it returned or raised
    mreq, mresp,        \* the latest request to generate_content of main.py and its outcome
    \* ---- services (modules/services)
    tcall, tresult,     \* the latest call of _truncate_query and what it returned
    dcall, dresult,     \* the latest call of get_complete_discovery_answer: what the
                        \* two provider calls yielded, and what it returned or raised
    areq, aresp,        \* the latest request that reached the retrieval of api.py line
                        \* 239 with the text the engine returned, and its response
    kcall, kresult,     \* the latest call of create_consultation_request, and what it
                        \* returned or raised together with the POSTs it made
    bcall, bresult,     \* the latest call of _build_context_from_search_results and the
                        \* context_parts it joined
    response_cache,     \* _response_cache of vertex_api.py, in insertion order
    rcall               \* the latest call that consulted the response cache

vars == <<now, hpc, req, sens, engineCalls, ragResult, disc, resp,
          cbState, failure_count, last_failure_time, cpc, trial, run,
          cache, lastCall, live, tpc, tloc, cq, cres,
          rfunc, rpc, attempt, invocations, last_exception,
          store, lookup, mreq, mresp, tcall, tresult, dcall, dresult,
          areq, aresp, kcall, kresult, bcall, bresult, response_cache, rcall>>

handlerVars == <<hpc, req, sens, engineCalls, ragResult, disc, resp>>
breakerVars == <<cbState, failure_count, last_failure_time, cpc, trial, run>>
cacheVars   == <<cache, lastCall, live>>
threadVars  == <<tpc, tloc>>
classVars   == <<cq, cres>>
retryVars   == <<rfunc, rpc, attempt, invocations, last_exception>>
storeVars   == <<store, lookup, mreq, mresp>>
svcVars     == <<tcall, tresult, dcall, dresult, areq, aresp>>
svc2Vars    == <<kcall, kresult, bcall, bresult, response_cache, rcall>>
extVars     == <<classVars, retryVars, storeVars, svcVars, svc2Vars>>

-----------------------------------------------------------------------------
(* Bounds of the model *)

MaxTime == 6        \* the clock runs 0..MaxTime
MaxKw == 2          \* keywords of one keyword list found in a query: 0..MaxKw
NumBodies == 2      \* distinct answer texts the provider may return

Min(a, b) == IF a < b THEN a ELSE b
Max(a, b) == IF a > b THEN a ELSE b

Tick ==
    /\ now < MaxTime
    /\ now' = now + 1

-----------------------------------------------------------------------------
(* Query classifier: SensitiveQueryDetector.is_sensitive_query             *)
(* A query is represented by what the keyword lists and regex tables find  *)
(* in it: gp = a general_plan keyword occurs; nsp, ndisc, ncons, ncontr,   *)
(* npriv = how many keywords of each sensitive list occur; patSpec,        *)
(* patGen, patCons = some pattern of that table matches.                   *)

Queries ==
    { q \in [gp : BOOLEAN, nsp : 0..MaxKw, ndisc : 0..MaxKw, ncons : 0..MaxKw,
             ncontr : 0..MaxKw, npriv : 0..MaxKw,
             patSpec : BOOLEAN, patGen : BOOLEAN, patCons : BOOLEAN] :
        \* every general_info pattern starts with a general_plan keyword and
        \* every consultant pattern starts with a consultant keyword
        /\ q.patGen => q.gp
        /\ q.patCons => q.ncons > 0 }

\* one "if self._check_keywords(...)" block of lines 96-114
KeywordRule(s, n, category, qtype) ==
    IF n > 0
    THEN [s EXCEPT !.categories = Append(@, category),
                   !.n_matched = @ + n,
                   !.query_type = qtype]
    ELSE s

\* lines 166-172, in hundredths
Confidence(categories, n_matched, pattern_matched_specific, pattern_matched_general) ==
    LET base == IF Len(categories) > 0
                THEN Min(40 * Len(categories) + 15 * n_matched, 100)
                ELSE 0
    IN  IF pattern_matched_specific THEN Max(base, 90)
        ELSE IF pattern_matched_general THEN Max(base, 70)
        ELSE base

\* variant: a RAG-first query keeps the is_sensitive its categories give it
FinalSensitiveNoOverride(categories, should_try_rag_first, pattern_matched_specific) ==
    Len(categories) > 0 \/ pattern_matched_specific

\* lines 175-179
FinalSensitive(categories, should_try_rag_first, pattern_matched_specific) ==
    IF should_try_rag_first /\ ~pattern_matched_specific
    THEN FALSE
    ELSE Len(categories) > 0 \/ pattern_matched_specific

is_sensitive_query(q) ==
    LET has_general_plan == q.gp
        has_specific_price == q.nsp > 0
        s0 == [categories |-> <<>>, n_matched |-> 0, query_type |-> "general",
               should_try_rag_first |-> FALSE]
        s1 == IF has_general_plan /\ ~has_specific_price
              THEN [s0 EXCEPT !.query_type = "general_plan_info",
                              !.should_try_rag_first = TRUE]
              ELSE IF has_specific_price
              THEN [s0 EXCEPT !.categories = Append(@, "specific_price"),
                              !.n_matched = @ + q.nsp,
                              !.query_type = "specific_price"]
              ELSE s0
        s2 == KeywordRule(s1, q.ndisc, "discount", "discount")
        s3 == KeywordRule(s2, q.ncons, "consultant", "consultant_request")
        s4 == KeywordRule(s3, q.ncontr, "contract", "contract")
        s5 == KeywordRule(s4, q.npriv, "privacy", "privacy")
        s6 == IF q.patSpec
              THEN [s5 EXCEPT !.categories = Append(@, "specific_price"),
                              !.query_type = "specific_price"]
              ELSE s5
        s7 == IF q.patGen
              THEN [s6 EXCEPT !.should_try_rag_first = TRUE,
                              !.query_type = "general_plan_info"]
              ELSE s6
        s8 == IF q.patCons
              THEN [s7 EXCEPT !.categories = Append(@, "consultant"),
                              !.query_type = "consultant_request"]
              ELSE s7
    IN  [is_sensitive |-> FinalSensitive(s8.categories, s8.should_try_rag_first, q.patSpec),
         should_try_rag_first |-> s8.should_try_rag_first,
         categories |-> s8.categories,
         confidence |-> Confidence(s8.categories, s8.n_matched, q.patSpec, q.patGen),
         pattern_matched |-> q.patSpec \/ q.patGen,
         query_type |-> s8.query_type]

In(x, s) == \E i \in 1..Len(s) : s[i] = x

\* SensitiveQueryDetector.get_sensitive_response: the name of the template returned
get_sensitive_response(categories) ==
    IF In("consultant", categories) \/ In("consultant_request", categories) THEN "T_unhandled"
    ELSE IF In("specific_price", categories) THEN "T_specific_price"
    ELSE IF In("discount", categories) THEN "T_discount"
    ELSE IF In("contract", categories) THEN "T_contract"
    ELSE IF In("privacy", categories) THEN "T_privacy"
    ELSE IF In("general_plan_info", categories) \/ In("rag_insufficient", categories)
         THEN "T_plan_not_found"
    ELSE IF In("rag_error", categories) THEN "T_system_error"
    ELSE "T_unhandled"

-----------------------------------------------------------------------------
(* Query texts.  A text is the sequence of its characters; a Hangul         *)
(* syllable is written as the romanisation of its letters (initial, vowel,  *)
(* final, the silent initial as x), every other character as itself.        *)

\* lines 13-17
specific_price_keywords == <<
    <<"xeol", "ma">>, <<"jeong", "hwag", "hi">>,
    <<"e", "x", "a", "c", "t", "l", "y">>, <<"gu", "che", "jeog", "xeu", "ro">>,
    <<"s", "p", "e", "c", "i", "f", "i", "c", "a", "l", "l", "y">>, <<"don">>,
    <<"geum", "xaeg">>, <<"xwon">>, <<"dal", "reo">>, <<"man", "xwon">>,
    <<"cheon", "xwon">>, <<"ga", "gyeog", "xi">>, <<"bi", "xyong", "xi">>,
    <<"xyo", "geum", "xi">>, <<"gyeol", "je">>,
    <<"p", "a", "y", "m", "e", "n", "t">>, <<"p", "a", "y">>,
    <<"b", "i", "l", "l", "i", "n", "g">> >>

\* lines 20-24
general_plan_keywords == <<
    <<"xyo", "geum", "je">>, <<"peul", "raen">>, <<"p", "l", "a", "n">>,
    <<"jong", "ryu">>, <<"ta", "xib">>, <<"t", "y", "p", "e">>,
    <<"xob", "syeon">>, <<"o", "p", "t", "i", "o", "n">>,
    <<"seo", "bi", "seu">>, <<"s", "e", "r", "v", "i", "c", "e">>,
    <<"gi", "neung">>, <<"f", "e", "a", "t", "u", "r", "e">>, <<"je", "gong">>,
    <<"po", "ham">>, <<"cha", "xi">>,
    <<"d", "i", "f", "f", "e", "r", "e", "n", "c", "e">>, <<"bi", "gyo">>,
    <<"c", "o", "m", "p", "a", "r", "e">>, <<"chu", "cheon">>,
    <<"r", "e", "c", "o", "m", "m", "e", "n", "d">> >>

\* lines 27-32
discount_keywords == <<
    <<"hal", "xin">>, <<"d", "i", "s", "c", "o", "u", "n", "t">>,
    <<"s", "a", "l", "e">>, <<"se", "xil">>, <<"teug", "ga">>,
    <<"peu", "ro", "mo", "syeon">>,
    <<"p", "r", "o", "m", "o", "t", "i", "o", "n">>,
    <<"c", "o", "u", "p", "o", "n">>, <<"ku", "pon">>, <<"xi", "ben", "teu">>,
    <<"e", "v", "e", "n", "t">>, <<"hye", "taeg">>,
    <<"b", "e", "n", "e", "f", "i", "t">>, <<"o", "f", "f", "e", "r">>,
    <<"d", "e", "a", "l">>, <<"dil">>, <<"kaem", "pe", "xin">>,
    <<"c", "a", "m", "p", "a", "i", "g", "n">>, <<"gi", "gan", "han", "jeong">>,
    <<"l", "i", "m", "i", "t", "e", "d">> >>

\* lines 35-40
consultant_keywords == <<
    <<"sang", "dam", "xwon">>, <<"sang", "dam", "sa">>, <<"jig", "jeob">>,
    <<"tong", "hwa">>, <<"jeon", "hwa">>, <<"xyeon", "gyeol">>,
    <<"c", "o", "n", "s", "u", "l", "t", "a", "n", "t">>,
    <<"a", "g", "e", "n", "t">>, <<"s", "u", "p", "p", "o", "r", "t">>,
    <<"h", "e", "l", "p">>, <<"seo", "po", "teu">>, <<"mun", "xui">>,
    <<"i", "n", "q", "u", "i", "r", "y">>,
    <<"c", "o", "n", "t", "a", "c", "t">>, <<"dam", "dang", "ja">>,
    <<"jig", "xwon">>, <<"sa", "ram">>, <<"p", "e", "r", "s", "o", "n">>,
    <<"h", "u", "m", "a", "n">>, <<"sil", "je">>, <<"r", "e", "a", "l">> >>

\* lines 43-47
contract_keywords == <<
    <<"gye", "xyag">>, <<"c", "o", "n", "t", "r", "a", "c", "t">>,
    <<"a", "g", "r", "e", "e", "m", "e", "n", "t">>, <<"gye", "xyag", "seo">>,
    <<"xyag", "gwan">>, <<"t", "e", "r", "m", "s">>, <<"jo", "geon">>,
    <<"c", "o", "n", "d", "i", "t", "i", "o", "n">>, <<"jeong", "chaeg">>,
    <<"p", "o", "l", "i", "c", "y">>, <<"beob", "jeog">>,
    <<"l", "e", "g", "a", "l">>, <<"so", "song">>,
    <<"l", "a", "w", "s", "u", "i", "t">>, <<"bun", "jaeng">>,
    <<"d", "i", "s", "p", "u", "t", "e">> >>

\* lines 50-54
privacy_keywords == <<
    <<"gae", "xin", "jeong", "bo">>, <<"p", "r", "i", "v", "a", "c", "y">>,
    <<"bo", "xan">>, <<"s", "e", "c", "u", "r", "i", "t", "y">>,
    <<"bi", "mil", "beon", "ho">>, <<"p", "a", "s", "s", "w", "o", "r", "d">>,
    <<"xa", "xi", "di">>, <<"i", "d">>, <<"gye", "jeong">>,
    <<"a", "c", "c", "o", "u", "n", "t">>, <<"ro", "geu", "xin">>,
    <<"l", "o", "g", "i", "n">>, <<"de", "xi", "teo">>, <<"d", "a", "t", "a">>,
    <<"jeong", "bo", "bo", "ho">>, <<"G", "D", "P", "R">>,
    <<"gae", "xin", "jeong", "bo", "bo", "ho", "beob">> >>

\* lines 117-124: each pattern as its literal pieces, any text without a line break between them
specific_price_patterns == <<
    << <<"xeol", "ma">>, <<"bad">>, <<"na">> >>,
    << <<"ga", "gyeog">>, <<"xeo", "tteoh">>, <<"doe">> >>,
    << <<"bi", "xyong">>, <<"xeol", "ma">> >>,
    << <<"jeong", "hwag">>, <<"ga", "gyeog">> >>,
    << <<"gu", "che", "jeog">>, <<"bi", "xyong">> >>,
    << <<"xwon">>, <<"jeong", "do">> >> >>

\* lines 127-133: each pattern as its literal pieces, any text without a line break between them
general_info_patterns == <<
    << <<"xyo", "geum", "je">>, <<"jong", "ryu">> >>,
    << <<"peul", "raen">>, <<"xiss">>, <<"na">> >>,
    << <<"seo", "bi", "seu">>, <<"cha", "xi">> >>,
    << <<"gi", "neung">>, <<"bi", "gyo">> >>,
    << <<"chu", "cheon">>, <<"peul", "raen">> >> >>

\* lines 153-157: each pattern as its literal pieces, any text without a line break between them
consultant_patterns == <<
    << <<"sang", "dam", "xwon">>, <<"xyeon", "gyeol">> >>,
    << <<"jig", "jeob">>, <<"tong", "hwa">> >>,
    << <<"sa", "ram">>, <<"dae", "hwa">> >> >>

\* the query  프리미엄 플랜이 정확히 얼마예요?
PremiumPlanExactPrice ==
    <<"peu", "ri", "mi", "xeom", " ", "peul", "raen", "xi", " ", "jeong",
      "hwag", "hi", " ", "xeol", "ma", "xye", "xyo", "?">>

\* the query  요금제 종류가 뭐가 있나요?
PlanKinds ==
    <<"xyo", "geum", "je", " ", "jong", "ryu", "ga", " ", "mwo", "ga", " ",
      "xiss", "na", "xyo", "?">>

\* the query  서비스 할인 있나요?
ServiceDiscount ==
    <<"seo", "bi", "seu", " ", "hal", "xin", " ", "xiss", "na", "xyo", "?">>

\* the query  상담원과 연결해주세요
ConnectConsultant ==
    <<"sang", "dam", "xwon", "gwa", " ", "xyeon", "gyeol", "hae", "ju", "se",
      "xyo">>

\* the query  베이직 요금제 가격이 어떻게 되나요?
BasicPlanPrice ==
    <<"be", "xi", "jig", " ", "xyo", "geum", "je", " ", "ga", "gyeog", "xi",
      " ", "xeo", "tteoh", "ge", " ", "doe", "na", "xyo", "?">>

\* the query  할인이 있나요?
AnyDiscount ==
    <<"hal", "xin", "xi", " ", "xiss", "na", "xyo", "?">>

\* the query  회사 소개를 해주세요
CompanyIntro ==
    <<"hoe", "sa", " ", "so", "gae", "reul", " ", "hae", "ju", "se", "xyo">>

\* the query  GDPR Policy?
GdprPolicy ==
    <<"G", "D", "P", "R", " ", "P", "o", "l", "i", "c", "y", "?">>

SampleTexts == {PremiumPlanExactPrice, PlanKinds, ServiceDiscount, ConnectConsultant,
                BasicPlanPrice, AnyDiscount, CompanyIntro, GdprPolicy}

UpperCase == <<"A", "B", "C", "D", "E", "F", "G", "H", "I", "J", "K", "L", "M",
               "N", "O", "P", "Q", "R", "S", "T", "U", "V", "W", "X", "Y", "Z">>
LowerCase == <<"a", "b", "c", "d", "e", "f", "g", "h", "i", "j", "k", "l", "m",
               "n", "o", "p", "q", "r", "s", "t", "u", "v", "w", "x", "y", "z">>

\* line 72: query.lower()
lower(text) ==
    [i \in 1..Len(text) |->
        IF \E n \in 1..Len(UpperCase) : UpperCase[n] = text[i]
        THEN LowerCase[CHOOSE n \in 1..Len(UpperCase) : UpperCase[n] = text[i]]
        ELSE text[i]]

OccursAt(text, piece, i) ==
    /\ i + Len(piece) - 1 <= Len(text)
    /\ \A j \in 1..Len(piece) : text[i + j - 1] = piece[j]

\* keyword in query
Contains(text, keyword) == \E i \in 1..Len(text) : OccursAt(text, keyword, i)

\* lines 195-197
check_keywords(query, keywords) ==
    \E n \in 1..Len(keywords) : Contains(query, keywords[n])

\* lines 199-201
get_matched_keywords(query, keywords) ==
    SelectSeq(keywords, LAMBDA keyword : Contains(query, keyword))

\* the rest of a pattern matches from position from on: each piece occurs after
\* a gap that a dot can match, that is one without a line break
RECURSIVE MatchFrom(_, _, _)
MatchFrom(text, pieces, from) ==
    IF pieces = <<>> THEN TRUE
    ELSE \E i \in from..Len(text) :
            /\ OccursAt(text, Head(pieces), i)
            /\ \A j \in from..(i - 1) : text[j] # "\n"
            /\ MatchFrom(text, Tail(pieces), i + Len(Head(pieces)))

\* re.search(pattern, text)
re_search(pattern, text) ==
    \E i \in 1..Len(text) :
        /\ OccursAt(text, Head(pattern), i)
        /\ MatchFrom(text, Tail(pattern), i + Len(Head(pattern)))

AnyPattern(patterns, text) ==
    \E n \in 1..Len(patterns) : re_search(patterns[n], text)

\* what lines 72-163 find in a query
Features(query) ==
    LET query_lower == lower(query) IN
    [gp      |-> check_keywords(query_lower, general_plan_keywords),
     nsp     |-> Len(get_matched_keywords(query_lower, specific_price_keywords)),
     ndisc   |-> Len(get_matched_keywords(query_lower, discount_keywords)),
     ncons   |-> Len(get_matched_keywords(query_lower, consultant_keywords)),
     ncontr  |-> Len(get_matched_keywords(query_lower, contract_keywords)),
     npriv   |-> Len(get_matched_keywords(query_lower, privacy_keywords)),
     patSpec |-> AnyPattern(specific_price_patterns, query_lower),
     patGen  |-> AnyPattern(general_info_patterns, query_lower),
     patCons |-> AnyPattern(consultant_patterns, query_lower)]

NoQuery == [text |-> <<>>, f |-> Features(<<>>)]

-----------------------------------------------------------------------------
(* /api/generate: generate_content of modules/routers/api.py               *)

RagMinLength == 50      \* len(answer_text.strip()) > 50

\* A text: which fixed string or which provider output it is, its length and
\* the length of its strip().
NoText == [kind |-> "none", name |-> "", id |-> 0, len |-> 0, strip |-> 0]

TemplateNames == {"T_unhandled", "T_specific_price", "T_discount", "T_contract",
                  "T_privacy", "T_plan_not_found", "T_system_error"}

TemplateLen(name) ==
    CASE name = "T_unhandled" -> 38
      [] name = "T_specific_price" -> 63
      [] name = "T_discount" -> 57
      [] name = "T_contract" -> 50
      [] name = "T_privacy" -> 47
      [] name = "T_plan_not_found" -> 50
      [] name = "T_system_error" -> 48

Template(name) ==
    [kind |-> "template", name |-> name, id |-> 0,
     len |-> TemplateLen(name), strip |-> TemplateLen(name)]

\* line 255 and line 340
DefaultAnswer == [kind |-> "default", name |-> "not_found", id |-> 0, len |-> 70, strip |-> 70]
GenericErrorAnswer == [kind |-> "generic_error", name |-> "temporary_error", id |-> 0,
                       len |-> 39, strip |-> 39]

Lens == {0, 1, RagMinLength, RagMinLength + 1}

\* answer_text values get_complete_discovery_answer can return
ProviderTexts ==
    { [kind |-> "provider", name |-> "", id |-> 0, len |-> 0, strip |-> 0] } \cup
    { t \in [kind : {"provider"}, name : {""}, id : 1..NumBodies,
             len : Lens \ {0}, strip : Lens] : t.strip <= t.len }

\* what one await of get_complete_discovery_answer yields: a result or an exception
EngineOutcomes ==
    { [called |-> TRUE, raised |-> TRUE, answer_text |-> NoText] } \cup
    { [called |-> TRUE, raised |-> FALSE, answer_text |-> t] : t \in ProviderTexts }

NoResult == [called |-> FALSE, raised |-> FALSE, answer_text |-> NoText]

NoSens == [is_sensitive |-> FALSE, should_try_rag_first |-> FALSE, categories |-> <<>>,
           confidence |-> 0, pattern_matched |-> FALSE, query_type |-> "unclassified"]

NoResp == [status |-> 0, raised |-> FALSE, engine_type |-> "none", answer |-> NoText,
           consultant_needed |-> FALSE, error |-> FALSE, meta_error |-> FALSE,
           sensitive_categories |-> <<>>]

\* conversationHistory as received: a JSON array, other valid JSON, or not JSON
HistKinds == {"list", "nonlist", "invalid"}

\* an exception leaves the handler: FastAPI answers with this status
Raised(code) == [NoResp EXCEPT !.status = code, !.raised = TRUE]

\* lines 336-355: json.loads(conversationHistory) is evaluated again at line 345
ErrorFallback(hist) ==
    IF hist = "invalid"
    THEN Raised(500)
    ELSE [NoResp EXCEPT !.status = 200, !.engine_type = "error_fallback",
                        !.answer = GenericErrorAnswer, !.error = TRUE, !.meta_error = TRUE]

\* conversation_history + [...] raises TypeError unless the decoded history is a list
HistoryAppends(hist) == hist = "list"

\* lines 114, 201, 238: the if / elif / fall-through of the handler
Route(sc) ==
    IF sc.should_try_rag_first THEN "rag_first"
    ELSE IF sc.is_sensitive THEN "sensitive"
    ELSE "direct"

\* line 123
RagSufficient(answer_text) == answer_text.len > 0 /\ answer_text.strip > RagMinLength

\* lines 251-256
FinalAnswer(answer_text) ==
    IF answer_text.len > 0 /\ answer_text.strip > 0 THEN answer_text ELSE DefaultAnswer

\* variant: the template is chosen from query_type instead of categories
SensitiveResponseByType(sc) ==
    [NoResp EXCEPT !.status = 200, !.engine_type = "sensitive_query_handler",
                   !.answer = Template(get_sensitive_response(<<sc.query_type>>)),
                   !.consultant_needed = TRUE,
                   !.sensitive_categories = sc.categories]

\* lines 203-236
SensitiveResponse(sc) ==
    [NoResp EXCEPT !.status = 200, !.engine_type = "sensitive_query_handler",
                   !.answer = Template(get_sensitive_response(sc.categories)),
                   !.consultant_needed = TRUE,
                   !.sensitive_categories = sc.categories]

\* variant: the insufficient RAG text is returned together with the consultant flag
RagInsufficientEchoesAnswer(discovery_result) ==
    [NoResp EXCEPT !.status = 200, !.engine_type = "rag_fallback_to_consultant",
                   !.answer = discovery_result.answer_text,
                   !.consultant_needed = TRUE,
                   !.sensitive_categories = <<"rag_insufficient">>]

\* lines 131-162
RagInsufficientResponse(discovery_result) ==
    [NoResp EXCEPT !.status = 200, !.engine_type = "rag_fallback_to_consultant",
                   !.answer = Template(get_sensitive_response(<<"general_plan_info">>)),
                   !.consultant_needed = TRUE,
                   !.sensitive_categories = <<"rag_insufficient">>]

\* lines 164-198
RagErrorResponse(discovery_result) ==
    [NoResp EXCEPT !.status = 200, !.engine_type = "rag_error_to_consultant",
                   !.answer = Template(get_sensitive_response(<<"general_plan_info">>)),
                   !.consultant_needed = TRUE, !.meta_error = TRUE,
                   !.sensitive_categories = <<"rag_error">>]

\* lines 318-334
MainResponse(discovery_result) ==
    [NoResp EXCEPT !.status = 200, !.engine_type = "discovery_engine_main",
                   !.answer = FinalAnswer(discovery_result.answer_text)]

\* lines 99-236, up to the first await: authentication, json.loads, classification
\* and the branches that return without calling the engine
Receive ==
    /\ hpc = "idle"
    /\ \E a \in BOOLEAN, h \in HistKinds, q \in Queries :
         LET sc == is_sensitive_query(q) IN
         /\ req' = [auth |-> a, hist |-> h]
         /\ IF ~a
            THEN /\ resp' = Raised(503)
                 /\ sens' = NoSens
                 /\ hpc' = "done"
            ELSE IF h = "invalid"
            THEN /\ resp' = ErrorFallback(h)
                 /\ sens' = NoSens
                 /\ hpc' = "done"
            ELSE /\ sens' = sc
                 /\ IF Route(sc) = "sensitive"
                    THEN /\ resp' = IF HistoryAppends(h) THEN SensitiveResponse(sc)
                                    ELSE ErrorFallback(h)
                         /\ hpc' = "done"
                    ELSE /\ resp' = NoResp
                         /\ hpc' = Route(sc)
    /\ engineCalls' = 0
    /\ ragResult' = NoResult
    /\ disc' = NoResult
    /\ UNCHANGED <<now, breakerVars, extVars, cacheVars, threadVars>>

\* lines 117-198: the await of line 119 completes
RagFirstAttempt ==
    /\ hpc = "rag_first"
    /\ \E out \in EngineOutcomes :
         /\ engineCalls' = engineCalls + 1
         /\ ragResult' = out
         /\ IF out.raised
            THEN /\ resp' = IF HistoryAppends(req.hist) THEN RagErrorResponse(out)
                            ELSE ErrorFallback(req.hist)
                 /\ hpc' = "done"
                 /\ disc' = disc
            ELSE /\ disc' = out
                 /\ IF RagSufficient(out.answer_text)
                    THEN /\ hpc' = "direct"
                         /\ resp' = resp
                    ELSE /\ resp' = IF HistoryAppends(req.hist)
                                    THEN RagInsufficientResponse(out)
                                    ELSE ErrorFallback(req.hist)
                         /\ hpc' = "done"
    /\ UNCHANGED <<now, req, sens, breakerVars, extVars, cacheVars, threadVars>>

\* lines 239-297: the await of line 239 completes; the history is extended and the
\* conversation logged (a logging failure is swallowed at line 296)
DirectRetrieval ==
    /\ hpc = "direct"
    /\ \E out \in EngineOutcomes :
         /\ engineCalls' = engineCalls + 1
         /\ IF out.raised
            THEN /\ resp' = ErrorFallback(req.hist)
                 /\ hpc' = "done"
                 /\ disc' = disc
            ELSE /\ disc' = out
                 /\ IF HistoryAppends(req.hist)
                    THEN /\ hpc' = "save"
                         /\ resp' = resp
                    ELSE /\ resp' = ErrorFallback(req.hist)
                         /\ hpc' = "done"
    /\ UNCHANGED <<now, req, sens, ragResult, breakerVars, extVars, cacheVars, threadVars>>

\* lines 299-334: the await of line 307 completes or raises (swallowed at line 315),
\* then the response is returned
SaveConversation ==
    /\ hpc = "save"
    /\ \E saved \in BOOLEAN :
         resp' = MainResponse(disc)
    /\ hpc' = "done"
    /\ UNCHANGED <<now, req, sens, engineCalls, ragResult, disc, breakerVars, extVars, cacheVars,
                   threadVars>>

\* the response has been sent; the next request arrives
Finish ==
    /\ hpc = "done"
    /\ hpc' = "idle"
    /\ req' = [auth |-> FALSE, hist |-> "list"]
    /\ sens' = NoSens
    /\ engineCalls' = 0
    /\ ragResult' = NoResult
    /\ disc' = NoResult
    /\ resp' = NoResp
    /\ UNCHANGED <<now, breakerVars, extVars, cacheVars, threadVars>>

-----------------------------------------------------------------------------
(* The classifier called on its own *)

\* is_sensitive_query called on one of the sample texts
ClassifyText ==
    /\ cres = NoSens
    /\ \E t \in SampleTexts :
         /\ cq' = [text |-> t, f |-> Features(t)]
         /\ cres' = is_sensitive_query(Features(t))
    /\ UNCHANGED <<now, handlerVars, breakerVars, retryVars, storeVars, svcVars, svc2Vars,
                   cacheVars, threadVars>>

\* is_sensitive_query called on a query given by what it contains
ClassifyAny ==
    /\ cres = NoSens
    /\ \E q \in Queries :
         /\ cq' = [text |-> <<>>, f |-> q]
         /\ cres' = is_sensitive_query(q)
    /\ UNCHANGED <<now, handlerVars, breakerVars, retryVars, storeVars, svcVars, svc2Vars,
                   cacheVars, threadVars>>

-----------------------------------------------------------------------------
(* CircuitBreaker of main.py. The wrapped coroutine is awaited at line 243: *)
(* the code before the await and the code after it each run without         *)
(* interruption, and other callers run in between.                          *)

FailureThreshold == 2   \* failure_threshold of the breaker under study
Timeout == 2            \* timeout of the breaker under study, in seconds
NumCallers == 3         \* coroutines calling through the same breaker

Callers == 1..NumCallers

\* variant: the open window never ends
InOpenWindowForever(t, failed_at) == TRUE

\* variant: the open window ends one second early
InOpenWindowShort(t, failed_at) == t - failed_at < Timeout - 1

\* line 234
InOpenWindow(t, failed_at) == t - failed_at < Timeout

\* variant: > instead of >=
TripsAbove(count) == count > FailureThreshold

\* line 259
Trips(count) == count >= FailureThreshold

\* lines 233-243: the guard, up to the await of the wrapped operation
CBEnter(c) ==
    /\ cpc[c] = "idle"
    /\ IF cbState = "OPEN"
       THEN IF InOpenWindow(now, last_failure_time)
            THEN /\ cpc' = [cpc EXCEPT ![c] = "rejected"]
                 /\ UNCHANGED <<cbState, trial>>
            ELSE /\ cbState' = "HALF_OPEN"
                 /\ cpc' = [cpc EXCEPT ![c] = "running"]
                 /\ trial' = trial \cup {c}
       ELSE /\ cpc' = [cpc EXCEPT ![c] = "running"]
            /\ trial' = IF cbState = "HALF_OPEN" THEN trial \cup {c} ELSE trial
            /\ UNCHANGED cbState
    /\ UNCHANGED <<failure_count, last_failure_time, run>>
    /\ UNCHANGED <<now, handlerVars, extVars, cacheVars, threadVars>>

\* lines 243-245 and _on_success (252-254): the wrapped operation returned
CBSuccess(c) ==
    /\ cpc[c] = "running"
    /\ failure_count' = 0
    /\ cbState' = "CLOSED"
    /\ cpc' = [cpc EXCEPT ![c] = "returned"]
    /\ trial' = trial \ {c}
    /\ run' = 0
    /\ UNCHANGED last_failure_time
    /\ UNCHANGED <<now, handlerVars, extVars, cacheVars, threadVars>>

\* lines 246-248 and _on_failure (256-261): the wrapped operation raised
CBFailure(c) ==
    /\ cpc[c] = "running"
    /\ failure_count' = failure_count + 1
    /\ last_failure_time' = now
    /\ cbState' = IF Trips(failure_count + 1) THEN "OPEN" ELSE cbState
    /\ cpc' = [cpc EXCEPT ![c] = "raised"]
    /\ trial' = trial \ {c}
    /\ run' = run + 1
    /\ UNCHANGED <<now, handlerVars, extVars, cacheVars, threadVars>>

\* the caller has received the result or the exception and may call again
CBReturn(c) ==
    /\ cpc[c] \in {"rejected", "returned", "raised"}
    /\ cpc' = [cpc EXCEPT ![c] = "idle"]
    /\ UNCHANGED <<cbState, failure_count, last_failure_time, trial, run>>
    /\ UNCHANGED <<now, handlerVars, extVars, cacheVars, threadVars>>

BreakerTick ==
    /\ Tick
    /\ UNCHANGED <<handlerVars, extVars, breakerVars, cacheVars, threadVars>>

\* the dependency recovers: the wrapped operation raises up to RecoveryTime
\* and succeeds from then on; the clock still reaches the end of an open
\* window that starts at RecoveryTime
RecoveryTime == MaxTime - Timeout

CBFailureBeforeRecovery(c) ==
    /\ now <= RecoveryTime
    /\ CBFailure(c)

\* the callers of the breaker whose dependency recovers: all but one
RecoveryCallers == Callers \ {NumCallers}

\* a call made while no other call is in flight
CBEnterAlone(c) ==
    /\ \A d \in Callers : cpc[d] = "idle"
    /\ CBEnter(c)

-----------------------------------------------------------------------------
(* retry_async of main.py under a CircuitBreaker, as main.py decorates       *)
(* _call_vertex_api and query_spanner_triples.  When the retry wrapper       *)
(* returns or raises, the breaker's wrapper resumes and runs _on_success or  *)
(* _on_failure without an await in between: one step.                        *)

MaxAttempts == 3    \* max_attempts of both decorated functions
NumRetryCallers == 1    \* coroutines calling the decorated function
MaxRetryTime == 3       \* the clock of the retry specification runs 0..MaxRetryTime

RetryCallers == 1..NumRetryCallers

DecoratedFunctions == {"_call_vertex_api", "query_spanner_triples"}

\* the exceptions argument of the decorator (lines 475 and 324)
RetriedExceptions(func) ==
    IF func = "_call_vertex_api"
    THEN {"VertexAIAPIError", "aiohttp.ClientError"}
    ELSE {"SpannerConnectionError", "Exception"}

\* ways one invocation of the decorated function can fail
FailureKinds(func) ==
    IF func = "_call_vertex_api"
    THEN {"http_400", "http_401", "http_403", "http_429", "http_5xx", "network"}
    ELSE {"connection", "query_syntax"}

\* the exception class that leaves the function body for a failure:
\* _call_vertex_api re-wraps everything as VertexAIAPIError (lines 495-526),
\* query_spanner_triples raises SpannerConnectionError or TripleExtractionError
\* (lines 388-400)
RaisedClass(func, kind) ==
    IF func = "_call_vertex_api" THEN "VertexAIAPIError"
    ELSE IF kind = "connection" THEN "SpannerConnectionError"
    ELSE "TripleExtractionError"

\* variant: no exception is caught by the retry loop
CatchesNothing(exceptions, cls) == FALSE

\* except exceptions as e: every class here derives from Exception
Catches(exceptions, cls) == cls \in exceptions \/ "Exception" \in exceptions

\* network errors, 5xx and rate-limit responses
Transient(kind) == kind \in {"http_429", "http_5xx", "network", "connection"}

\* line 199: for attempt in range(max_attempts)
InRange(k) == k < MaxAttempts

\* main.py 233-243 and 197-199: the breaker's guard, then the retry loop starts
RetryEnter(c, func) ==
    /\ rpc[c] = "idle"
    /\ rfunc \in {"none", func}
    /\ rfunc' = func
    /\ IF cbState = "OPEN" /\ InOpenWindow(now, last_failure_time)
       THEN /\ rpc' = [rpc EXCEPT ![c] = "rejected"]
            /\ UNCHANGED cbState
       ELSE /\ cbState' = IF cbState = "OPEN" THEN "HALF_OPEN" ELSE cbState
            /\ rpc' = [rpc EXCEPT ![c] = "calling"]
    /\ attempt' = [attempt EXCEPT ![c] = 0]
    /\ invocations' = [invocations EXCEPT ![c] = 0]
    /\ last_exception' = [last_exception EXCEPT ![c] = "None"]
    /\ UNCHANGED <<failure_count, last_failure_time, cpc, trial, run>>
    /\ UNCHANGED <<now, handlerVars, classVars, storeVars, svcVars, svc2Vars,
                   cacheVars, threadVars>>

\* lines 200-201 with 243-245 and 252-254: the function returns a result
RetryAttemptOk(c) ==
    /\ rpc[c] = "calling"
    /\ invocations' = [invocations EXCEPT ![c] = @ + 1]
    /\ rpc' = [rpc EXCEPT ![c] = "returned"]
    /\ failure_count' = 0
    /\ cbState' = "CLOSED"
    /\ UNCHANGED <<rfunc, attempt, last_exception, last_failure_time, cpc, trial, run>>
    /\ UNCHANGED <<now, handlerVars, classVars, storeVars, svcVars, svc2Vars,
                   cacheVars, threadVars>>

\* lines 200-211 with 246-248 and 256-261: the function raises
RetryAttemptFails(c) ==
    /\ rpc[c] = "calling"
    /\ invocations' = [invocations EXCEPT ![c] = @ + 1]
    /\ \E kind \in FailureKinds(rfunc) :
         /\ last_exception' = [last_exception EXCEPT ![c] = kind]
         /\ IF Catches(RetriedExceptions(rfunc), RaisedClass(rfunc, kind))
               /\ attempt[c] # MaxAttempts - 1
            THEN \* asyncio.sleep(wait_time)
                 /\ rpc' = [rpc EXCEPT ![c] = "sleeping"]
                 /\ UNCHANGED <<cbState, failure_count, last_failure_time>>
            ELSE \* break and raise last_exception, or an exception not caught
                 /\ rpc' = [rpc EXCEPT ![c] = "raised"]
                 /\ failure_count' = failure_count + 1
                 /\ last_failure_time' = now
                 /\ cbState' = IF Trips(failure_count + 1) THEN "OPEN" ELSE cbState
    /\ UNCHANGED <<rfunc, attempt, cpc, trial, run>>
    /\ UNCHANGED <<now, handlerVars, classVars, storeVars, svcVars, svc2Vars,
                   cacheVars, threadVars>>

\* line 211 returns and the loop of line 199 goes on
RetryWake(c) ==
    /\ rpc[c] = "sleeping"
    /\ attempt' = [attempt EXCEPT ![c] = @ + 1]
    /\ IF InRange(attempt[c] + 1)
       THEN /\ rpc' = [rpc EXCEPT ![c] = "calling"]
            /\ UNCHANGED <<cbState, failure_count, last_failure_time>>
       ELSE \* lines 214-215 with 246-248
            /\ rpc' = [rpc EXCEPT ![c] = "raised"]
            /\ failure_count' = failure_count + 1
            /\ last_failure_time' = now
            /\ cbState' = IF Trips(failure_count + 1) THEN "OPEN" ELSE cbState
    /\ UNCHANGED <<rfunc, invocations, last_exception, cpc, trial, run>>
    /\ UNCHANGED <<now, handlerVars, classVars, storeVars, svcVars, svc2Vars,
                   cacheVars, threadVars>>

RetryTick ==
    /\ now < MaxRetryTime
    /\ now' = now + 1
    /\ UNCHANGED <<handlerVars, extVars, breakerVars, cacheVars, threadVars>>

\* the caller has the result or the exception and may call again
RetryReturn(c) ==
    /\ rpc[c] \in {"rejected", "returned", "raised"}
    /\ rpc' = [rpc EXCEPT ![c] = "idle"]
    /\ attempt' = [attempt EXCEPT ![c] = 0]
    /\ invocations' = [invocations EXCEPT ![c] = 0]
    /\ last_exception' = [last_exception EXCEPT ![c] = "None"]
    /\ UNCHANGED rfunc
    /\ UNCHANGED <<now, handlerVars, breakerVars, classVars, storeVars, svcVars, svc2Vars,
                   cacheVars, threadVars>>

-----------------------------------------------------------------------------
(* Fact store lookups: query_spanner_triples of main.py (the body under its  *)
(* two decorators) and query_spanner_triples / query_spanner_by_triple of    *)
(* src/database.py.  A row of the table is the triple string it formats to;  *)
(* which rows a LIKE condition selects is an input of the query.             *)

NumTriples == 2     \* distinct triple strings
MaxRows == 3        \* rows in the table
MaxKeywords == 1    \* keywords taken from a prompt

SqlLimit == 10          \* LIMIT 10 of main.py
MaxTriples == 15        \* all_triples[:15]
DbTextLimit == 50       \* LIMIT 50 of database.py
DbTripleLimit == 30     \* LIMIT 30 of database.py

Triples == 1..NumTriples

\* how the store answers: execute_sql returns rows, or raises a connection /
\* timeout error, or raises another error (a query-syntax error)
StoreBehaviours == {"rows", "connection", "query"}

\* the rows a LIKE condition selects, per keyword of the prompt
KeywordMatches ==
    UNION { [1..n -> SUBSET Triples] : n \in 0..MaxKeywords }

\* rows selected by a condition, in table order
SelectRows(table, selected) == SelectSeq(table, LAMBDA t : t \in selected)

\* LIMIT n and [:n]
Take(rows, n) == SubSeq(rows, 1, Min(n, Len(rows)))

NoDuplicates(rows) ==
    \A i, j \in 1..Len(rows) : i # j => rows[i] # rows[j]

\* main.py 374-375: append the triples that are not in all_triples yet
RECURSIVE AppendNew(_, _)
AppendNew(all_triples, keyword_triples) ==
    IF keyword_triples = <<>> THEN all_triples
    ELSE AppendNew(IF In(Head(keyword_triples), all_triples)
                   THEN all_triples
                   ELSE Append(all_triples, Head(keyword_triples)),
                   Tail(keyword_triples))

\* main.py 369-375: the loop over the keywords
RECURSIVE KeywordLoop(_, _, _)
KeywordLoop(table, all_triples, matches) ==
    IF matches = <<>> THEN all_triples
    ELSE KeywordLoop(table,
                     AppendNew(all_triples, Take(SelectRows(table, Head(matches)), SqlLimit)),
                     Tail(matches))

NoLookup == [func |-> "none", store_raised |-> FALSE, cached |-> FALSE,
             raised |-> "none", triples |-> <<>>]

\* main.py 325-400
main_query_spanner_triples(table, has_database, behaviour, prompt_match, matches) ==
    IF ~has_database
    THEN [NoLookup EXCEPT !.func = "main.query_spanner_triples",
                          !.raised = "SpannerConnectionError"]
    ELSE IF behaviour = "connection"
    THEN [NoLookup EXCEPT !.func = "main.query_spanner_triples", !.store_raised = TRUE,
                          !.raised = "SpannerConnectionError"]
    ELSE IF behaviour = "query"
    THEN [NoLookup EXCEPT !.func = "main.query_spanner_triples", !.store_raised = TRUE,
                          !.raised = "TripleExtractionError"]
    ELSE LET original_triples == Take(SelectRows(table, prompt_match), SqlLimit)
             all_triples == KeywordLoop(table, original_triples, matches)
         IN  [NoLookup EXCEPT !.func = "main.query_spanner_triples",
                              !.triples = Take(all_triples, MaxTriples)]

\* database.py 41-67: the OR of the conditions of all keywords, 1=1 without one
db_text_rows(table, matches) ==
    IF matches = <<>> THEN Take(table, DbTextLimit)
    ELSE Take(SelectRows(table, UNION { matches[n] : n \in 1..Len(matches) }), DbTextLimit)

-----------------------------------------------------------------------------
(* MemoryCache of modules/cache.py; self.cache is a dict, kept here as the  *)
(* sequence of its entries in insertion order.                              *)

MaxSize == 2        \* max_size of the cache under study
Ttl == 2            \* ttl_seconds passed to set
MaxCacheTime == 3   \* the clock of the cache specifications runs 0..MaxCacheTime

Keys == 1..(MaxSize + 1)
Values == {"a", "b"}
Ttls == {Ttl}

\* index of key k in the dict, 0 when absent
IndexOf(c, k) ==
    IF \E i \in 1..Len(c) : c[i].key = k
    THEN CHOOSE i \in 1..Len(c) : c[i].key = k
    ELSE 0

\* del self.cache[k]
Del(c, k) == SelectSeq(c, LAMBDA e : e.key # k)

\* self.cache[k] = entry: an existing key keeps its place in the order
Store(c, k, entry) ==
    IF IndexOf(c, k) > 0
    THEN [c EXCEPT ![IndexOf(c, k)] = entry]
    ELSE Append(c, entry)

\* variant: <= instead of <
is_valid_inclusive(c, k, t) ==
    IF IndexOf(c, k) = 0 THEN FALSE ELSE t <= c[IndexOf(c, k)].expires

\* lines 35-39
is_valid(c, k, t) ==
    IF IndexOf(c, k) = 0 THEN FALSE ELSE t < c[IndexOf(c, k)].expires

\* variant: > instead of >=
OverCapacity(c) == Len(c) > MaxSize

\* line 25
AtCapacity(c) == Len(c) >= MaxSize

NoEntry == [key |-> 0, value |-> "", expires |-> 0]
NoCall == [op |-> "none", key |-> 0, hit |-> FALSE, value |-> "", evicted |-> FALSE]

\* get, lines 13-21
CacheGet(k) ==
    /\ LET i == IndexOf(cache, k) IN
       IF i > 0 /\ is_valid(cache, k, now)
       THEN /\ lastCall' = [NoCall EXCEPT !.op = "get", !.key = k, !.hit = TRUE,
                                      !.value = cache[i].value]
            /\ cache' = cache
       ELSE /\ lastCall' = [NoCall EXCEPT !.op = "get", !.key = k]
            /\ cache' = IF i > 0 THEN Del(cache, k) ELSE cache
    /\ UNCHANGED <<live>>
    /\ UNCHANGED <<now, handlerVars, extVars, breakerVars, threadVars>>

\* set, lines 23-33
CacheSet(k, v, ttl) ==
    /\ LET oldest_key == IF AtCapacity(cache) THEN cache[1].key ELSE 0
           c1 == IF AtCapacity(cache) THEN Del(cache, oldest_key) ELSE cache
       IN  /\ cache' = Store(c1, k, [key |-> k, value |-> v, expires |-> now + ttl])
           /\ live' = [j \in Keys |->
                         IF j = k THEN [key |-> k, value |-> v, expires |-> now + ttl]
                         ELSE IF j = oldest_key THEN NoEntry
                         ELSE live[j]]
    /\ lastCall' = [NoCall EXCEPT !.op = "set", !.key = k, !.evicted = AtCapacity(cache)]
    /\ UNCHANGED <<now, handlerVars, extVars, breakerVars, threadVars>>

\* clear, lines 41-43
CacheClear ==
    /\ cache' = <<>>
    /\ live' = [j \in Keys |-> NoEntry]
    /\ lastCall' = NoCall
    /\ UNCHANGED <<now, handlerVars, extVars, breakerVars, threadVars>>

CacheTick ==
    /\ now < MaxCacheTime
    /\ now' = now + 1
    /\ lastCall' = NoCall
    /\ UNCHANGED <<cache, live>>
    /\ UNCHANGED <<handlerVars, extVars, breakerVars, threadVars>>

-----------------------------------------------------------------------------
(* MemoryCache called from several threads. The class holds no lock, so a   *)
(* thread switch may fall between any two accesses of self.cache; each      *)
(* action below is one such access.                                         *)

NumThreads == 2

Threads == 1..NumThreads

Idle == [op |-> "none", key |-> 0, value |-> "", entry |-> NoEntry, oldest_key |-> 0,
         err |-> "none", hit |-> FALSE, stale |-> FALSE]

Has(c, k) == IndexOf(c, k) > 0

\* a thread calls get(k) or set(k, "a", Ttl)
TCall(t) ==
    /\ tpc[t] = "idle"
    /\ \/ \E k \in Keys :
            /\ tloc' = [tloc EXCEPT ![t] = [Idle EXCEPT !.op = "get", !.key = k]]
            /\ tpc' = [tpc EXCEPT ![t] = "get15"]
       \/ \E k \in Keys :
            /\ tloc' = [tloc EXCEPT ![t] = [Idle EXCEPT !.op = "set", !.key = k, !.value = "a"]]
            /\ tpc' = [tpc EXCEPT ![t] = "set25"]
    /\ UNCHANGED <<now, cache, lastCall, live, handlerVars, extVars, breakerVars>>

\* line 15: cache_entry = self.cache.get(key); a missing key returns None (line 21)
TGet15(t) ==
    /\ tpc[t] = "get15"
    /\ IF Has(cache, tloc[t].key)
       THEN /\ tloc' = [tloc EXCEPT ![t].entry = cache[IndexOf(cache, tloc[t].key)]]
            /\ tpc' = [tpc EXCEPT ![t] = "valid37"]
       ELSE /\ tloc' = tloc
            /\ tpc' = [tpc EXCEPT ![t] = "done"]
    /\ UNCHANGED <<now, cache, lastCall, live, handlerVars, extVars, breakerVars>>

\* line 37: if key not in self.cache: return False, and then line 18 leads to the del
TValid37(t) ==
    /\ tpc[t] = "valid37"
    /\ tpc' = [tpc EXCEPT ![t] = IF Has(cache, tloc[t].key) THEN "valid39" ELSE "del20"]
    /\ UNCHANGED <<now, cache, lastCall, live, tloc, handlerVars, extVars, breakerVars>>

\* line 39: time.time() < self.cache[key]['expires'], then line 17 returns
\* cache_entry['value'], the value of the entry read at line 15
TValid39(t) ==
    /\ tpc[t] = "valid39"
    /\ IF ~Has(cache, tloc[t].key)
       THEN /\ tloc' = [tloc EXCEPT ![t].err = "KeyError"]
            /\ tpc' = [tpc EXCEPT ![t] = "done"]
       ELSE IF now < cache[IndexOf(cache, tloc[t].key)].expires
       THEN /\ tloc' = [tloc EXCEPT ![t].hit = TRUE,
                                    ![t].value = tloc[t].entry.value,
                                    ![t].stale = (now >= tloc[t].entry.expires)]
            /\ tpc' = [tpc EXCEPT ![t] = "done"]
       ELSE /\ tloc' = tloc
            /\ tpc' = [tpc EXCEPT ![t] = "del20"]
    /\ UNCHANGED <<now, cache, lastCall, live, handlerVars, extVars, breakerVars>>

\* line 20: del self.cache[key]
TDel20(t) ==
    /\ tpc[t] = "del20"
    /\ IF Has(cache, tloc[t].key)
       THEN /\ cache' = Del(cache, tloc[t].key)
            /\ tloc' = tloc
       ELSE /\ cache' = cache
            /\ tloc' = [tloc EXCEPT ![t].err = "KeyError"]
    /\ tpc' = [tpc EXCEPT ![t] = "done"]
    /\ UNCHANGED <<now, lastCall, live, handlerVars, extVars, breakerVars>>

\* line 25: if len(self.cache) >= self.max_size
TSet25(t) ==
    /\ tpc[t] = "set25"
    /\ tpc' = [tpc EXCEPT ![t] = IF AtCapacity(cache) THEN "set27" ELSE "set30"]
    /\ UNCHANGED <<now, cache, lastCall, live, tloc, handlerVars, extVars, breakerVars>>

\* line 27: oldest_key = next(iter(self.cache))
TSet27(t) ==
    /\ tpc[t] = "set27"
    /\ IF Len(cache) > 0
       THEN /\ tloc' = [tloc EXCEPT ![t].oldest_key = cache[1].key]
            /\ tpc' = [tpc EXCEPT ![t] = "set28"]
       ELSE /\ tloc' = [tloc EXCEPT ![t].err = "StopIteration"]
            /\ tpc' = [tpc EXCEPT ![t] = "done"]
    /\ UNCHANGED <<now, cache, lastCall, live, handlerVars, extVars, breakerVars>>

\* line 28: del self.cache[oldest_key]
TSet28(t) ==
    /\ tpc[t] = "set28"
    /\ IF Has(cache, tloc[t].oldest_key)
       THEN /\ cache' = Del(cache, tloc[t].oldest_key)
            /\ tloc' = tloc
            /\ tpc' = [tpc EXCEPT ![t] = "set30"]
       ELSE /\ cache' = cache
            /\ tloc' = [tloc EXCEPT ![t].err = "KeyError"]
            /\ tpc' = [tpc EXCEPT ![t] = "done"]
    /\ UNCHANGED <<now, lastCall, live, handlerVars, extVars, breakerVars>>

\* lines 30-33: self.cache[key] = {'value': value, 'expires': time.time() + ttl_seconds}
TSet30(t) ==
    /\ tpc[t] = "set30"
    /\ cache' = Store(cache, tloc[t].key,
                      [key |-> tloc[t].key, value |-> tloc[t].value, expires |-> now + Ttl])
    /\ tpc' = [tpc EXCEPT ![t] = "done"]
    /\ UNCHANGED <<now, lastCall, live, tloc, handlerVars, extVars, breakerVars>>

\* the call has returned or raised; the thread goes on to its next call
TReturn(t) ==
    /\ tpc[t] = "done"
    /\ tpc' = [tpc EXCEPT ![t] = "idle"]
    /\ tloc' = [tloc EXCEPT ![t] = Idle]
    /\ UNCHANGED <<now, cache, lastCall, live, handlerVars, extVars, breakerVars>>

\* the clock runs until the entries stored at time 0 have expired
ThreadTick ==
    /\ now < Ttl
    /\ now' = now + 1
    /\ UNCHANGED <<handlerVars, extVars, breakerVars, cacheVars, threadVars>>

-----------------------------------------------------------------------------
(* Fact store lookups and the /api/generate handler of main.py *)

\* the table gains a row
StoreInsert(t) ==
    /\ Len(store) < MaxRows
    /\ store' = Append(store, t)
    /\ UNCHANGED <<lookup, mreq, mresp>>
    /\ UNCHANGED <<now, handlerVars, breakerVars, classVars, retryVars, svcVars, svc2Vars,
                   cacheVars, threadVars>>

\* main.py 325-400, called without its decorators
MainQueryByText ==
    /\ \E has_database \in BOOLEAN, behaviour \in StoreBehaviours,
          prompt_match \in SUBSET Triples, matches \in KeywordMatches :
         lookup' = main_query_spanner_triples(store, has_database, behaviour,
                                              prompt_match, matches)
    /\ UNCHANGED <<store, mreq, mresp>>
    /\ UNCHANGED <<now, handlerVars, breakerVars, classVars, retryVars, svcVars, svc2Vars,
                   cacheVars, threadVars>>

\* the cache key of the prompt under study
PromptKey == 1

\* database.py 24-87, with memory_cache.get (cache.py 13-21) and
\* memory_cache.set (cache.py 23-33)
DbQueryByText ==
    /\ LET i == IndexOf(cache, PromptKey) IN
       IF i > 0 /\ is_valid(cache, PromptKey, now)
       THEN /\ lookup' = [NoLookup EXCEPT !.func = "db.query_spanner_triples",
                                          !.cached = TRUE, !.triples = cache[i].value]
            /\ cache' = cache
       ELSE LET c0 == IF i > 0 THEN Del(cache, PromptKey) ELSE cache IN
            \E behaviour \in StoreBehaviours, matches \in KeywordMatches :
               IF behaviour = "rows"
               THEN LET triples == db_text_rows(store, matches)
                        c1 == IF AtCapacity(c0) THEN Del(c0, c0[1].key) ELSE c0
                    IN  /\ lookup' = [NoLookup EXCEPT !.func = "db.query_spanner_triples",
                                                      !.triples = triples]
                        /\ cache' = Store(c1, PromptKey,
                                          [key |-> PromptKey, value |-> triples,
                                           expires |-> now + Ttl])
               ELSE \* lines 81-87: except Exception ... return []
                    /\ lookup' = [NoLookup EXCEPT !.func = "db.query_spanner_triples",
                                                  !.store_raised = TRUE]
                    /\ cache' = c0
    /\ UNCHANGED <<store, mreq, mresp, lastCall, live>>
    /\ UNCHANGED <<now, handlerVars, breakerVars, classVars, retryVars, svcVars, svc2Vars,
                   threadVars>>

\* database.py 89-156
DbQueryByTriple ==
    /\ \E all_blank \in BOOLEAN, behaviour \in StoreBehaviours, selected \in SUBSET Triples :
         lookup' =
            IF behaviour = "connection"
            THEN \* get_database_connection() of line 99 raises: lines 148-156
                 [NoLookup EXCEPT !.func = "db.query_spanner_by_triple", !.store_raised = TRUE]
            ELSE IF all_blank
            THEN [NoLookup EXCEPT !.func = "db.query_spanner_by_triple"]
            ELSE IF behaviour = "query"
            THEN [NoLookup EXCEPT !.func = "db.query_spanner_by_triple", !.store_raised = TRUE]
            ELSE [NoLookup EXCEPT !.func = "db.query_spanner_by_triple",
                                  !.triples = Take(SelectRows(store, selected), DbTripleLimit)]
    /\ UNCHANGED <<store, mreq, mresp>>
    /\ UNCHANGED <<now, handlerVars, breakerVars, classVars, retryVars, svcVars, svc2Vars,
                   cacheVars, threadVars>>

\* what one await of _call_vertex_api yields in generate_content: a well-formed
\* result, one whose candidates cannot be read, VertexAIAPIError (its
\* status_code is 500 or 503, main.py 476-526), or the HTTPException of the
\* provider's open breaker
VertexOutcomes == {"ok", "malformed", "VertexAIAPIError", "HTTPException"}

NoMainRequest == [credentials |-> FALSE, hist |-> "none", lookup |-> "none",
                  vertex |-> "none"]
NoMainResponse == [status |-> 0, answer |-> "none"]

MainRaises(code) == [status |-> code, answer |-> "none"]

\* main.py 558-573: the fallback after TripleExtractionError
TripleErrorFallback(hist, vertex) ==
    IF HistoryAppends(hist) /\ vertex = "ok"
    THEN [status |-> 200, answer |-> "retrieval_only"]
    ELSE MainRaises(503)

\* main.py 535-556 after the lookup returned, and 574-598
AnswerWithTriples(hist, vertex) ==
    IF ~HistoryAppends(hist) THEN MainRaises(500)
    ELSE IF vertex = "ok" THEN [status |-> 200, answer |-> "grounded"]
    ELSE IF vertex = "VertexAIAPIError" THEN MainRaises(503)
    ELSE IF vertex = "HTTPException" THEN MainRaises(503)
    ELSE MainRaises(500)

\* main.py 535-598: what the handler does with the outcome of the lookup
AfterLookup(outcome, hist, vertex) ==
    IF outcome = "SpannerConnectionError" THEN MainRaises(503)
    ELSE IF outcome = "TripleExtractionError" THEN TripleErrorFallback(hist, vertex)
    ELSE IF outcome = "HTTPException" THEN MainRaises(503)
    ELSE AnswerWithTriples(hist, vertex)

\* main.py 530-598: one request; the lookup goes through spanner_circuit_breaker
\* (230-261) and retry_async, whose attempts all end the way of the last one
MainGenerate ==
    /\ \E credentials \in BOOLEAN, hist \in HistKinds, vertex \in VertexOutcomes,
          has_database \in BOOLEAN, behaviour \in StoreBehaviours :
         LET rejected == cbState = "OPEN" /\ InOpenWindow(now, last_failure_time)
             \* the triples returned go into the payload and do not influence
             \* the response: the prompt selects every row
             result == main_query_spanner_triples(store, has_database, behaviour,
                                                  Triples, <<>>)
             outcome == IF rejected THEN "HTTPException"
                        ELSE IF result.raised # "none" THEN result.raised
                        ELSE "ok"
         IN  IF ~credentials
             THEN /\ mreq' = [NoMainRequest EXCEPT !.hist = hist]
                  /\ mresp' = MainRaises(503)
                  /\ UNCHANGED <<cbState, failure_count, last_failure_time>>
             ELSE IF hist = "invalid"
             THEN /\ mreq' = [NoMainRequest EXCEPT !.credentials = TRUE, !.hist = hist]
                  /\ mresp' = MainRaises(500)
                  /\ UNCHANGED <<cbState, failure_count, last_failure_time>>
             ELSE /\ mreq' = [credentials |-> TRUE, hist |-> hist, lookup |-> outcome,
                              vertex |-> vertex]
                  /\ mresp' = AfterLookup(outcome, hist, vertex)
                  /\ IF rejected
                     THEN UNCHANGED <<cbState, failure_count, last_failure_time>>
                     ELSE IF result.raised # "none"
                     THEN /\ failure_count' = failure_count + 1
                          /\ last_failure_time' = now
                          /\ cbState' = IF Trips(failure_count + 1) THEN "OPEN"
                                        ELSE IF cbState = "OPEN" THEN "HALF_OPEN"
                                        ELSE cbState
                     ELSE /\ failure_count' = 0
                          /\ cbState' = "CLOSED"
                          /\ UNCHANGED last_failure_time
    /\ UNCHANGED <<store, lookup, cpc, trial, run>>
    /\ UNCHANGED <<now, handlerVars, classVars, retryVars, svcVars, svc2Vars,
                   cacheVars, threadVars>>

-----------------------------------------------------------------------------
(* _truncate_query (modules/services/vertex_api.py)                        *)
(*                                                                         *)
(* The function looks at a query only through its length and the places of *)
(* its '.' characters. A text is held as the lengths of the pieces that    *)
(* the '.' characters separate: "ab.c." is <<2, 1, 0>>, "" is <<0>>, so    *)
(* query.split('.') is the sequence itself.                                *)

DefaultMaxLength == 2000
Margin == 50
MinTruncated == 100
MaxPieces == 3

\* lengths of the pieces of the queries tried, around the thresholds of the code
PieceLens == {0, 1, 98, 99, 999, 1000, 1849, 1850, 1949, 1950, 2000, 2001}

QueryTexts18 ==
    UNION { [1..n -> PieceLens] : n \in 1..MaxPieces }

EmptyText == <<0>>
Ellipsis == <<0, 0, 0, 0>>

RECURSIVE SumPieces(_)
SumPieces(t) == IF t = <<>> THEN 0 ELSE Head(t) + SumPieces(Tail(t))

\* len(text)
TextLen(t) == SumPieces(t) + Len(t) - 1

\* a + b
Concat(a, b) ==
    SubSeq(a, 1, Len(a) - 1) \o <<a[Len(a)] + b[1]>> \o Tail(b)

\* the first k characters of t, for 0 <= k <= len(t)
RECURSIVE PrefixChars(_, _)
PrefixChars(t, k) ==
    IF k <= Head(t) THEN <<k>>
    ELSE <<Head(t)>> \o PrefixChars(Tail(t), k - Head(t) - 1)

\* t[:n] of Python: a negative n counts from the end
Slice(t, n) ==
    IF n >= TextLen(t) THEN t
    ELSE IF n >= 0 THEN PrefixChars(t, n)
    ELSE PrefixChars(t, Max(TextLen(t) + n, 0))

\* lines 57-61: the loop over the sentences, from sentence i on
RECURSIVE SentenceLoop(_, _, _, _)
SentenceLoop(sentences, i, truncated, max_length) ==
    IF i > Len(sentences) THEN truncated
    ELSE IF TextLen(truncated) + sentences[i] + 1 <= max_length - Margin
    THEN SentenceLoop(sentences, i + 1,
                      Concat(Concat(truncated, <<sentences[i]>>), <<0, 0>>), max_length)
    ELSE truncated

\* variant: the hard cut leaves no margin for the marker
HardCutNoMargin(query, max_length) ==
    Concat(Slice(query, max_length), Ellipsis)

\* line 65
HardCut(query, max_length) ==
    Concat(Slice(query, max_length - Margin), Ellipsis)

\* lines 48-68
truncate_query(query, max_length) ==
    IF TextLen(query) <= max_length THEN query
    ELSE LET truncated == SentenceLoop(query, 1, EmptyText, max_length)
         IN IF truncated = EmptyText \/ TextLen(truncated) < MinTruncated
            THEN HardCut(query, max_length)
            ELSE truncated

NoText18 == <<>>
NoTruncateCall == [query |-> <<>>, max_length |-> 0]

\* lines 112 and 328: both callers pass the query alone, max_length is the default
TruncateQuery ==
    /\ tcall = NoTruncateCall
    /\ \E query \in QueryTexts18 :
         /\ tcall' = [query |-> query, max_length |-> DefaultMaxLength]
         /\ tresult' = truncate_query(query, DefaultMaxLength)
    /\ UNCHANGED <<dcall, dresult, areq, aresp>>
    /\ UNCHANGED <<now, handlerVars, breakerVars, classVars, retryVars, storeVars, svc2Vars,
                   cacheVars, threadVars>>

-----------------------------------------------------------------------------
(* get_complete_discovery_answer (modules/services/discovery_engine_api.py) *)
(*                                                                         *)
(* A search result is held by the three fields the function reads: the     *)
(* title and link of document.derivedStructData and the uri of document;   *)
(* 0 stands for a field that is absent or empty.                           *)

MaxResults == 6
SynthLimit == 5

SearchDocs ==
    { [title |-> 1, link |-> 1, uri |-> 0],
      [title |-> 0, link |-> 1, uri |-> 2],
      [title |-> 1, link |-> 0, uri |-> 2],
      [title |-> 0, link |-> 0, uri |-> 0] }

SearchResults == UNION { [1..n -> SearchDocs] : n \in 0..MaxResults }

\* what the await of search_documents yields (line 160)
SearchOutcomes ==
    { [raised |-> TRUE, results |-> <<>>, has_ids |-> FALSE] } \cup
    { [raised |-> FALSE, results |-> r, has_ids |-> h] :
          r \in SearchResults, h \in BOOLEAN }

\* a citation as the Answer API returns it
ProviderCitation == [title |-> <<"answer", 1>>, uri |-> 1, displayName |-> <<"answer", 1>>]

\* what the await of generate_answer yields (line 178)
AnswerOutcomes ==
    { [raised |-> TRUE, answerText |-> FALSE, citations |-> <<>>] } \cup
    { [raised |-> FALSE, answerText |-> t, citations |-> c] :
          t \in BOOLEAN, c \in { <<>>, <<ProviderCitation>> } }

\* line 240: derived_data.get("title", f"문서 {i+1}"), i counted from 1 here
DocTitle(doc, i) == IF doc.title # 0 THEN <<"title", doc.title>> ELSE <<"doc", i>>

\* line 241: derived_data.get("link") or doc.get("uri", "")
DocUri(doc) == IF doc.link # 0 THEN doc.link ELSE doc.uri

\* lines 236-249: the loop over the results, from result i on
RECURSIVE CitationLoop(_, _, _)
CitationLoop(results, i, citations) ==
    IF i > Len(results) THEN citations
    ELSE LET title == DocTitle(results[i], i)
             uri == DocUri(results[i])
         IN CitationLoop(results, i + 1,
                IF uri # 0
                THEN Append(citations, [title |-> title, uri |-> uri, displayName |-> title])
                ELSE citations)

\* lines 233-251
FinalCitations(citations, results) ==
    IF citations = <<>> /\ results # <<>>
    THEN CitationLoop(Take(results, SynthLimit), 1, <<>>)
    ELSE citations

\* lines 209-230: the text built when the Answer API was not used
SearchFallbackText(results, after_error) ==
    IF results # <<>> THEN "from_search_results"
    ELSE IF after_error THEN "empty" ELSE "no_results_found"

NoSearch == [raised |-> FALSE, results |-> <<>>, has_ids |-> FALSE]
NotAwaited == [raised |-> FALSE, answerText |-> FALSE, citations |-> <<>>]
NoDiscoveryCall == [called |-> FALSE, search |-> NoSearch, awaited |-> FALSE,
                    answer |-> NotAwaited]
NoDiscoveryResult == [raised |-> FALSE, answer_text |-> "none", citations |-> <<>>,
                      search_results |-> <<>>, synthesized |-> FALSE]

\* lines 151-276
get_complete_discovery_answer(search, answer) ==
    IF search.raised
    THEN [NoDiscoveryResult EXCEPT !.raised = TRUE]
    ELSE LET answer_text ==
                 IF ~search.has_ids THEN SearchFallbackText(search.results, FALSE)
                 ELSE IF answer.raised THEN SearchFallbackText(search.results, TRUE)
                 ELSE IF answer.answerText THEN "answer" ELSE "empty"
             citations ==
                 IF search.has_ids /\ ~answer.raised THEN answer.citations ELSE <<>>
         IN [raised |-> FALSE, answer_text |-> answer_text,
             citations |-> FinalCitations(citations, search.results),
             search_results |-> search.results,
             synthesized |-> citations = <<>> /\ search.results # <<>>]

\* one call of the function; generate_answer is awaited only with both ids
DiscoveryAnswer ==
    /\ ~dcall.called
    /\ \E search \in SearchOutcomes, answer \in AnswerOutcomes :
         /\ dcall' = [called |-> TRUE, search |-> search,
                      awaited |-> ~search.raised /\ search.has_ids,
                      answer |-> IF ~search.raised /\ search.has_ids
                                 THEN answer ELSE NotAwaited]
         /\ dresult' = get_complete_discovery_answer(search, answer)
    /\ UNCHANGED <<tcall, tresult, areq, aresp>>
    /\ UNCHANGED <<now, handlerVars, breakerVars, classVars, retryVars, storeVars, svc2Vars,
                   cacheVars, threadVars>>

-----------------------------------------------------------------------------
(* validate_response_relevance (modules/services/validation_service.py)    *)
(* and the answer that the /api/generate handler of api.py returns for a   *)
(* text of the engine. Texts are sequences of characters as in the section *)
(* on query texts.                                                         *)

\* validation_service.py 13-16
avoid_keywords == <<
    <<"joe", "song", "ha", "ji", "man">>,
    <<"dab", "byeon", "deu", "ril", " ", "su", " ", "xeobs", "seub", "ni", "da">>,
    <<"je", "gong", "hae", "deu", "ri", "gi", " ", "xeo", "ryeob", "seub", "ni", "da">>,
    <<"jeong", "bo", "ga", " ", "xeobs", "seub", "ni", "da">>,
    <<"hwag", "xin", "hal", " ", "su", " ", "xeobs", "seub", "ni", "da">>,
    <<"xal", " ", "su", " ", "xeobs", "seub", "ni", "da">> >>

\* validation_service.py 24-27
relevant_keywords == <<
    <<"cheo", "xeum", "seo", "bi", "seu">>,
    <<"ma", "xi", "me", "xil", "reo">>,
    <<"cheo", "xeum", "so", "peu", "teu">>,
    <<"xi", "me", "xil">>,
    <<"bal", "song">>,
    <<"seol", "mun">>,
    <<"seo", "bi", "seu">>,
    <<"sol", "ru", "syeon">>,
    <<"go", "gaeg">>,
    <<"gi", "xeob">>,
    <<"dae", "haeng">> >>

\* api.py 255: the answer given when the engine returned no text
DefaultAnswerText ==
    <<"joe", "song", "ha", "ji", "man", " ", "gwan", "ryeon", " ", "jeong",
      "bo", "reul", " ", "chaj", "xeul", " ", "su", " ", "xeobs", "seub",
      "ni", "da", ".", " ", "cheo", "xeum", "seo", "bi", "seu", "xwa", " ",
      "gwan", "ryeon", "doen", " ", "gu", "che", "jeog", "xin", " ", "jil",
      "mun", "xeul", " ", "hae", "ju", "si", "myeon", " ", "deo", " ",
      "jeong", "hwag", "han", " ", "dab", "byeon", "xeul", " ", "je", "gong",
      "hal", " ", "su", " ", "xiss", "seub", "ni", "da", ".">>

\* api.py 340: the answer of the error fallback
GenericErrorText ==
    <<"joe", "song", "hab", "ni", "da", ".", " ", "xil", "si", "jeog", "xin",
      " ", "xo", "ryu", "ga", " ", "bal", "saeng", "haess", "seub", "ni",
      "da", ".", " ", "jam", "si", " ", "hu", " ", "da", "si", " ", "si",
      "do", "hae", "ju", "se", "xyo", ".">>

\* a sentence of 65 characters with none of the keywords in it
Filler ==
    <<"mun", "xui", "ha", "sin", " ", "nae", "xyong", "xeun", " ", "dam",
      "dang", " ", "bu", "seo", "xe", "seo", " ", "sal", "pyeo", "bon", " ",
      "dwi", "xe", " ", "xyeong", "xeob", "xil", " ", "gi", "jun", "xeu",
      "ro", " ", "xi", "teul", " ", "xan", "xe", " ", "jeon", "hwa", "na",
      " ", "mun", "ja", "ro", " ", "ja", "se", "hi", " ", "xan", "nae",
      "hae", " ", "deu", "ri", "do", "rog", " ", "ha", "gess", "seub", "ni",
      "da">>

AdequateLength == 50
MaxParts == 2

Whitespace == {" "}

\* str.strip()
RECURSIVE strip(_)
strip(text) ==
    IF text = <<>> THEN text
    ELSE IF Head(text) \in Whitespace THEN strip(Tail(text))
    ELSE IF text[Len(text)] \in Whitespace THEN strip(SubSeq(text, 1, Len(text) - 1))
    ELSE text

\* validation_service.py 19
has_avoid_keywords(response) == check_keywords(lower(response), avoid_keywords)

\* validation_service.py 30
has_relevant_content(response) == check_keywords(lower(response), relevant_keywords)

\* validation_service.py 33
has_adequate_length(response) == Len(strip(response)) > AdequateLength

\* validation_service.py 7-40
validate_response_relevance(user_prompt, response) ==
    IF has_avoid_keywords(response) THEN FALSE
    ELSE /\ has_relevant_content(response)
         /\ has_adequate_length(response)
         /\ ~has_avoid_keywords(response)

\* the pieces the texts of the engine are put together from
AnswerParts ==
    { avoid_keywords[n] : n \in 1..Len(avoid_keywords) } \cup
    { relevant_keywords[n] : n \in 1..Len(relevant_keywords) } \cup
    { Filler, <<" ">> }

RECURSIVE Flatten(_)
Flatten(parts) == IF parts = <<>> THEN <<>> ELSE Head(parts) \o Flatten(Tail(parts))

AnswerTexts ==
    { Flatten(parts) : parts \in UNION { [1..n -> AnswerParts] : n \in 0..MaxParts } }

NoAnswerRequest == [called |-> FALSE, hist |-> "list", raised |-> FALSE, answer_text |-> <<>>]
NoAnswerResponse == [status |-> 0, engine_type |-> "none", answer |-> <<>>]

\* api.py 251-256
final_answer(answer_text) ==
    IF answer_text # <<>> /\ strip(answer_text) # <<>> THEN answer_text
    ELSE DefaultAnswerText

\* api.py 318-334
DirectResponse(answer_text) ==
    [status |-> 200, engine_type |-> "discovery_engine_main",
     answer |-> final_answer(answer_text)]

\* api.py 336-355
ErrorFallbackResponse ==
    [status |-> 200, engine_type |-> "error_fallback", answer |-> GenericErrorText]

\* api.py 239-355, for a request that passed authentication with a history that
\* is valid JSON and was routed to the retrieval of line 239: the engine raises or
\* returns a text, the history is extended (TypeError unless it is a list), the
\* conversation is logged and saved (failures swallowed) and the answer returned.
\* validate_response_relevance is called nowhere in the repository.
DirectAnswer ==
    /\ ~areq.called
    /\ \E hist \in {"list", "nonlist"}, raised \in BOOLEAN, answer_text \in AnswerTexts :
         /\ areq' = [called |-> TRUE, hist |-> hist, raised |-> raised,
                     answer_text |-> IF raised THEN <<>> ELSE answer_text]
         /\ aresp' = IF raised \/ ~HistoryAppends(hist)
                     THEN ErrorFallbackResponse
                     ELSE DirectResponse(answer_text)
    /\ UNCHANGED <<tcall, tresult, dcall, dresult>>
    /\ UNCHANGED <<now, handlerVars, breakerVars, classVars, retryVars, storeVars, svc2Vars,
                   cacheVars, threadVars>>

-----------------------------------------------------------------------------
(* ConsultantService (modules/services/consultant_service.py)              *)

MaxTurns == 2

\* config.py 25-82: the data attributes of class Config
ConfigAttributes ==
    { "PROJECT_ID", "LOCATION_ID", "MODEL_ID", "DATASTORE_ID", "DATASTORE_LOCATION",
      "DATASTORES", "DISCOVERY_LOCATION", "DISCOVERY_COLLECTION", "DISCOVERY_ENGINE_ID",
      "DISCOVERY_SERVING_CONFIG", "SERVICE_ACCOUNT_EMAIL", "STORAGE_BUCKET",
      "CONVERSATION_BUCKET", "SYSTEM_PROMPT_PATH" }

\* reading Config.<name> raises AttributeError unless the class defines it
HasConfig(name) == name \in ConfigAttributes

\* one message of the conversation history: its role and which text it holds
Turns == [role : {"user", "model"}, text : 1..2]

Histories == UNION { [1..n -> Turns] : n \in 0..MaxTurns }

\* GOOGLE_CHAT_WEBHOOK_URL in the environment
WebhookUrls == {"unset", "empty", "set"}

\* what session.post yields (line 70)
WebhookReplies == {"200", "500", "raises"}

\* lines 83-107; line 93 reads Config.MAX_CONVERSATION_HISTORY when the history is
\* not empty
format_conversation_for_chat(user_query, conversation_history) ==
    IF conversation_history # <<>> /\ ~HasConfig("MAX_CONVERSATION_HISTORY")
    THEN [raised |-> TRUE, query |-> 0, turns |-> <<>>]
    ELSE [raised |-> FALSE, query |-> user_query, turns |-> conversation_history]

\* lines 30-77: the body of the try of send_to_google_chat
SendBody(user_query, conversation_history, url, reply) ==
    IF url # "set"
    THEN [raised |-> FALSE, success |-> FALSE, error |-> "not_configured", posts |-> <<>>]
    ELSE LET text == format_conversation_for_chat(user_query, conversation_history)
             post == [query |-> text.query, turns |-> text.turns]
         IN IF text.raised
            THEN [raised |-> TRUE, success |-> FALSE, error |-> "none", posts |-> <<>>]
            ELSE IF reply = "raises"
            THEN [raised |-> TRUE, success |-> FALSE, error |-> "none", posts |-> <<post>>]
            ELSE IF reply = "200"
            THEN [raised |-> FALSE, success |-> TRUE, error |-> "none", posts |-> <<post>>]
            ELSE [raised |-> FALSE, success |-> FALSE, error |-> "status",
                  posts |-> <<post>>]

\* lines 27-81
send_to_google_chat(user_query, conversation_history, url, reply) ==
    LET body == SendBody(user_query, conversation_history, url, reply)
    IN IF body.raised
       THEN [raised |-> FALSE, success |-> FALSE, error |-> "exception",
             posts |-> body.posts]
       ELSE body

\* variant: the result of a failed delivery carries no error detail
ConsultationResultNoError(chat_result) ==
    [raised |-> FALSE, success |-> chat_result.success, error |-> "none",
     posts |-> chat_result.posts]

\* lines 128-138
ConsultationResult(chat_result) ==
    [raised |-> FALSE, success |-> chat_result.success,
     error |-> IF ~chat_result.success THEN chat_result.error ELSE "none",
     posts |-> chat_result.posts]

\* lines 109-146
create_consultation_request(user_query, conversation_history, url, reply) ==
    LET chat_result == send_to_google_chat(user_query, conversation_history, url, reply)
    IN IF chat_result.raised
       THEN [raised |-> FALSE, success |-> FALSE, error |-> "exception",
             posts |-> chat_result.posts]
       ELSE ConsultationResult(chat_result)

NoConsultationCall == [called |-> FALSE, user_query |-> 0, conversation_history |-> <<>>,
                       url |-> "unset", reply |-> "200"]
NoConsultationResult == [raised |-> FALSE, success |-> FALSE, error |-> "none",
                         posts |-> <<>>]

\* api.py 448: request_consultant awaits create_consultation_request
CreateConsultation ==
    /\ ~kcall.called
    /\ \E user_query \in 1..2, conversation_history \in Histories,
          url \in WebhookUrls, reply \in WebhookReplies :
         /\ kcall' = [called |-> TRUE, user_query |-> user_query,
                      conversation_history |-> conversation_history,
                      url |-> url, reply |-> reply]
         /\ kresult' = create_consultation_request(user_query, conversation_history,
                                                   url, reply)
    /\ UNCHANGED <<bcall, bresult, response_cache, rcall>>
    /\ UNCHANGED <<now, handlerVars, breakerVars, classVars, retryVars, storeVars, svcVars,
                   cacheVars, threadVars>>

-----------------------------------------------------------------------------
(* _build_context_from_search_results (modules/services/vertex_api.py)     *)
(*                                                                         *)
(* The function looks at its texts only through their lengths: a text is   *)
(* held as its length, a snippet as its length with and without the        *)
(* surrounding whitespace, and the result as the lengths of context_parts. *)

MaxDocs == 2
MaxSnippets == 3
DocLimit == 8
SnippetLimit == 2
SummaryShare == 3

\* max_context_length: the default (line 198) and the value of lines 434 and 477
ContextLengths == {1500, 700}

\* title of a result: -1 when the result has no title
TitleLens == {-1, 1}

SnippetKinds ==
    { [len |-> 10, strip |-> 8], [len |-> 338, strip |-> 338],
      [len |-> 700, strip |-> 700] }

ContextDocs ==
    [title : TitleLens,
     snippets : UNION { [1..n -> SnippetKinds] : n \in 0..MaxSnippets }]

ContextResults == UNION { [1..n -> ContextDocs] : n \in 0..MaxDocs }

\* length of summary_text: 0 when there is no summary
SummaryLens == {0, 223, 224, 490}

\* line 208: "[검색 요약]\n" + summary_text + "\n\n"
SummaryContextLen(summary_len) == 8 + summary_len + 2

\* lines 215 and 222: "[문서{i}: {title}]\n", the title "문서{i}" by default
DocHeaderLen(doc, i) == 6 + (IF doc.title = -1 THEN 3 ELSE doc.title) + 2

\* lines 224-228: the loop over the snippets of one document, from snippet k on
RECURSIVE SnippetLoop(_, _, _, _, _)
SnippetLoop(snippets, k, doc_context, current_length, max_context_length) ==
    IF k > Len(snippets) THEN doc_context
    ELSE IF current_length + doc_context + snippets[k].len > max_context_length
    THEN doc_context
    ELSE SnippetLoop(snippets, k + 1, doc_context + 2 + snippets[k].strip + 1,
                     current_length, max_context_length)

RECURSIVE SumLens(_)
SumLens(parts) == IF parts = <<>> THEN 0 ELSE Head(parts) + SumLens(Tail(parts))

\* lines 214-234: the loop over the documents, from document i on
RECURSIVE DocLoop(_, _, _, _)
DocLoop(results, i, context_parts, max_context_length) ==
    IF i > Len(results) THEN context_parts
    ELSE IF results[i].snippets = <<>>
    THEN DocLoop(results, i + 1, context_parts, max_context_length)
    ELSE LET current_length == SumLens(context_parts)
             doc_context == SnippetLoop(Take(results[i].snippets, SnippetLimit), 1,
                                        DocHeaderLen(results[i], i), current_length,
                                        max_context_length)
         IN IF current_length + doc_context <= max_context_length
            THEN DocLoop(results, i + 1, Append(context_parts, doc_context),
                         max_context_length)
            ELSE context_parts

\* lines 198-234: context_parts
build_context_parts(search_results, summary_len, max_context_length) ==
    IF search_results = <<>> /\ summary_len = 0 THEN <<>>
    ELSE LET with_summary ==
                 IF summary_len > 0
                    /\ SummaryContextLen(summary_len) <= max_context_length \div SummaryShare
                 THEN <<SummaryContextLen(summary_len)>>
                 ELSE <<>>
         IN DocLoop(Take(search_results, DocLimit), 1, with_summary, max_context_length)

\* line 236: len("\n".join(context_parts))
JoinedLen(context_parts) ==
    IF context_parts = <<>> THEN 0
    ELSE SumLens(context_parts) + Len(context_parts) - 1

NoContextCall == [called |-> FALSE, search_results |-> <<>>, summary_len |-> 0,
                  max_context_length |-> 0]

\* lines 252, 431 and 474: one call of the function
BuildContext ==
    /\ ~bcall.called
    /\ \E search_results \in ContextResults, summary_len \in SummaryLens,
          max_context_length \in ContextLengths :
         /\ bcall' = [called |-> TRUE, search_results |-> search_results,
                      summary_len |-> summary_len,
                      max_context_length |-> max_context_length]
         /\ bresult' = build_context_parts(search_results, summary_len, max_context_length)
    /\ UNCHANGED <<kcall, kresult, response_cache, rcall>>
    /\ UNCHANGED <<now, handlerVars, breakerVars, classVars, retryVars, storeVars, svcVars,
                   cacheVars, threadVars>>

-----------------------------------------------------------------------------
(* The response cache of modules/services/vertex_api.py (lines 19 to 40)   *)
(* and the three functions that go through it.                             *)
(*                                                                         *)
(* A response is the dict built at lines 394 to 405; of its fields the     *)
(* model keeps answer_text and the two fields callers add afterwards,      *)
(* search_metadata and hybrid_metadata (Absent while the key is not in the *)
(* dict, else the number of documents the search found).  _cache_response  *)
(* stores the dict object itself and call_discovery_engine returns that    *)
(* same object, so an assignment to a field of the returned dict is an     *)
(* assignment to the cached entry: an entry of response_cache carries the  *)
(* current content of the object (value) next to the content it had when   *)
(* it was stored (stored, which the code does not have).                   *)
CacheLimit == 100
NumPrompts == 1
MaxFound == 1
NumAnswers == 2
Absent == -1

Prompts == 1 .. NumPrompts
FoundCounts == 0 .. MaxFound
\* what the Answer API does when it is called: 0 raises, else the answer text
ProviderReplies == 0 .. NumAnswers

\* _get_cache_key, lines 21 to 23: the md5 of the query text; the query is the
\* prompt itself, or the prompt inside one of the two enhanced templates with
\* the search context (and the triples) the call found
CacheKey(kind, prompt, context) == [kind |-> kind, prompt |-> prompt, context |-> context]

NoResponse == [answer_text |-> 0, search_metadata |-> Absent, hybrid_metadata |-> Absent]
NoCacheKey == CacheKey("none", 0, 0)
NoCacheCall == [called |-> FALSE, func |-> "none", key |-> NoCacheKey, raised |-> FALSE,
                hit |-> FALSE, value |-> NoResponse, stored |-> NoResponse]

CachedAt(rc, key) == {i \in 1 .. Len(rc) : rc[i].key = key}

\* _get_cached_response, lines 25 to 28
get_cached_response(rc, key) ==
    IF CachedAt(rc, key) = {} THEN NoCacheCall
    ELSE LET e == rc[CHOOSE i \in CachedAt(rc, key) : TRUE]
         IN  [NoCacheCall EXCEPT !.called = TRUE, !.key = key, !.hit = TRUE,
                                 !.value = e.value, !.stored = e.stored]

\* _cache_response, lines 30 to 40: at the limit the oldest key goes first
cache_response(rc, key, response) ==
    LET kept  == IF Len(rc) >= CacheLimit THEN Tail(rc) ELSE rc
        entry == [key |-> key, value |-> response, stored |-> response]
    IN  IF CachedAt(kept, key) = {} THEN Append(kept, entry)
        ELSE [i \in 1 .. Len(kept) |-> IF kept[i].key = key THEN entry ELSE kept[i]]

\* call_discovery_engine, lines 308 to 414: [rc, ret]
call_discovery_engine(rc, key, reply) ==
    LET cached == get_cached_response(rc, key)
        result == [answer_text |-> reply, search_metadata |-> Absent,
                   hybrid_metadata |-> Absent]
    IN  IF cached.hit THEN [rc |-> rc, ret |-> cached]                    \* 312-315
        ELSE IF reply = 0                                                 \* 412-414
             THEN [rc |-> rc,
                   ret |-> [NoCacheCall EXCEPT !.called = TRUE, !.key = key,
                                               !.raised = TRUE]]
             ELSE [rc |-> cache_response(rc, key, result),                \* 408
                   ret |-> [NoCacheCall EXCEPT !.called = TRUE, !.key = key,  \* 410
                                               !.value = result, !.stored = result]]

\* result[field] = v on the dict call_discovery_engine returned: the entry of
\* the cache that holds this object changes with it
SetField(rc, key, field, v) ==
    [i \in 1 .. Len(rc) |->
        IF rc[i].key = key THEN [rc[i] EXCEPT !.value = [@ EXCEPT ![field] = v]]
        ELSE rc[i]]

\* call_discovery_engine_with_search_context, lines 241 to 284; found is the
\* number of results of the search, has_context whether the context built from
\* them is non-empty, reply and retry what the Answer API does on the first
\* call and on the call of the except branch
with_search_context(rc, prompt, found, has_context, reply, retry) ==
    LET plain    == call_discovery_engine(rc, CacheKey("plain", prompt, 0), reply)
        enhanced == call_discovery_engine(rc, CacheKey("search", prompt, found), reply)
        first    == IF found = 0 \/ ~has_context THEN plain ELSE enhanced   \* 249, 259, 271
    IN  IF first.ret.raised                                                 \* 282-284
        THEN call_discovery_engine(first.rc, CacheKey("plain", prompt, 0), retry)
        ELSE IF found = 0 \/ ~has_context THEN first
        ELSE [rc  |-> SetField(first.rc, first.ret.key, "search_metadata", found),  \* 274
              ret |-> first.ret]

\* generate_triple_based_answer, lines 459 to 500
triple_based_answer(rc, prompt, has_triples, found, has_context, reply, retry) ==
    LET context == IF has_context THEN found ELSE 0
        first   == call_discovery_engine(rc, CacheKey("triples", prompt, context), reply)
    IN  IF ~has_triples                                                     \* 461-462
        THEN with_search_context(rc, prompt, found, has_context, reply, retry)
        ELSE IF first.ret.raised THEN first                                 \* 491
        ELSE [rc  |-> SetField(first.rc, first.ret.key, "hybrid_metadata", found),  \* 494
              ret |-> first.ret]

\* triple_service.py line 25 and validation_service.py: a plain call
CallDiscoveryEngine ==
    \E prompt \in Prompts, reply \in ProviderReplies :
       LET r == call_discovery_engine(response_cache, CacheKey("plain", prompt, 0), reply)
       IN  /\ response_cache' = r.rc
           /\ rcall' = [r.ret EXCEPT !.func = "call_discovery_engine"]
           /\ UNCHANGED <<kcall, kresult, bcall, bresult>>
           /\ UNCHANGED <<now, handlerVars, breakerVars, classVars, retryVars, storeVars,
                          svcVars, cacheVars, threadVars>>

CallWithSearchContext ==
    \E prompt \in Prompts, found \in FoundCounts, has_context \in BOOLEAN,
       reply \in ProviderReplies, retry \in ProviderReplies :
       LET r == with_search_context(response_cache, prompt, found, has_context,
                                    reply, retry)
       IN  /\ response_cache' = r.rc
           /\ rcall' = [r.ret EXCEPT !.func = "call_discovery_engine_with_search_context"]
           /\ UNCHANGED <<kcall, kresult, bcall, bresult>>
           /\ UNCHANGED <<now, handlerVars, breakerVars, classVars, retryVars, storeVars,
                          svcVars, cacheVars, threadVars>>

GenerateTripleBasedAnswer ==
    \E prompt \in Prompts, has_triples \in BOOLEAN, found \in FoundCounts,
       has_context \in BOOLEAN, reply \in ProviderReplies, retry \in ProviderReplies :
       LET r == triple_based_answer(response_cache, prompt, has_triples, found,
                                    has_context, reply, retry)
       IN  /\ response_cache' = r.rc
           /\ rcall' = [r.ret EXCEPT !.func = "generate_triple_based_answer"]
           /\ UNCHANGED <<kcall, kresult, bcall, bresult>>
           /\ UNCHANGED <<now, handlerVars, breakerVars, classVars, retryVars, storeVars,
                          svcVars, cacheVars, threadVars>>

-----------------------------------------------------------------------------
(* Specifications *)

Init ==
    /\ now = 0
    /\ hpc = "idle"
    /\ req = [auth |-> FALSE, hist |-> "list"]
    /\ sens = NoSens
    /\ engineCalls = 0
    /\ ragResult = NoResult
    /\ disc = NoResult
    /\ resp = NoResp
    /\ cbState = "CLOSED"
    /\ failure_count = 0
    /\ last_failure_time = -1           \* None: never read before a failure sets it
    /\ cpc = [c \in Callers |-> "idle"]
    /\ trial = {}
    /\ run = 0
    /\ cache = <<>>
    /\ lastCall = NoCall
    /\ live = [k \in Keys |-> NoEntry]
    /\ tpc = [t \in Threads |-> "idle"]
    /\ tloc = [t \in Threads |-> Idle]
    /\ cq = NoQuery
    /\ cres = NoSens
    /\ rfunc = "none"
    /\ rpc = [c \in RetryCallers |-> "idle"]
    /\ attempt = [c \in RetryCallers |-> 0]
    /\ invocations = [c \in RetryCallers |-> 0]
    /\ last_exception = [c \in RetryCallers |-> "None"]
    /\ store = <<>>
    /\ lookup = NoLookup
    /\ mreq = NoMainRequest
    /\ mresp = NoMainResponse
    /\ tcall = NoTruncateCall
    /\ tresult = NoText18
    /\ dcall = NoDiscoveryCall
    /\ dresult = NoDiscoveryResult
    /\ areq = NoAnswerRequest
    /\ aresp = NoAnswerResponse
    /\ kcall = NoConsultationCall
    /\ kresult = NoConsultationResult
    /\ bcall = NoContextCall
    /\ bresult = <<>>
    /\ response_cache = <<>>
    /\ rcall = NoCacheCall

\* one request after another through /api/generate
Next ==
    \/ Receive
    \/ RagFirstAttempt
    \/ DirectRetrieval
    \/ SaveConversation
    \/ Finish

Spec == Init /\ [][Next]_vars

\* concurrent callers of one CircuitBreaker
NextBreaker ==
    \/ \E c \in Callers : CBEnter(c)
    \/ \E c \in Callers : CBSuccess(c)
    \/ \E c \in Callers : CBFailure(c)
    \/ \E c \in Callers : CBReturn(c)
    \/ BreakerTick

SpecBreaker == Init /\ [][NextBreaker]_vars

\* concurrent callers of one CircuitBreaker whose dependency recovers: time
\* passes, every caller keeps calling, and the wrapped operation returns
NextBreakerRecovery ==
    \/ \E c \in RecoveryCallers : CBEnter(c)
    \/ \E c \in RecoveryCallers : CBSuccess(c)
    \/ \E c \in RecoveryCallers : CBFailureBeforeRecovery(c)
    \/ \E c \in RecoveryCallers : CBReturn(c)
    \/ BreakerTick

SpecBreakerRecovery ==
    /\ Init /\ [][NextBreakerRecovery]_vars
    /\ WF_vars(BreakerTick)
    /\ \A c \in RecoveryCallers :
          /\ WF_vars(CBEnter(c))
          /\ WF_vars(CBSuccess(c) \/ CBFailureBeforeRecovery(c))
          /\ WF_vars(CBReturn(c))

\* calls through one CircuitBreaker made one after another
NextBreakerSeq ==
    \/ \E c \in Callers : CBEnterAlone(c)
    \/ \E c \in Callers : CBSuccess(c)
    \/ \E c \in Callers : CBFailure(c)
    \/ \E c \in Callers : CBReturn(c)
    \/ BreakerTick

SpecBreakerSeq == Init /\ [][NextBreakerSeq]_vars

\* get, set and clear of one MemoryCache, each call running to completion
NextCache ==
    \/ \E k \in Keys : CacheGet(k)
    \/ \E k \in Keys, v \in Values, ttl \in Ttls : CacheSet(k, v, ttl)
    \/ CacheClear
    \/ CacheTick

SpecCache == Init /\ [][NextCache]_vars

\* get and set of one MemoryCache called from several threads
NextCacheThreads ==
    \/ \E t \in Threads : TCall(t)
    \/ \E t \in Threads : TGet15(t)
    \/ \E t \in Threads : TValid37(t)
    \/ \E t \in Threads : TValid39(t)
    \/ \E t \in Threads : TDel20(t)
    \/ \E t \in Threads : TSet25(t)
    \/ \E t \in Threads : TSet27(t)
    \/ \E t \in Threads : TSet28(t)
    \/ \E t \in Threads : TSet30(t)
    \/ \E t \in Threads : TReturn(t)
    \/ ThreadTick

SpecCacheThreads == Init /\ [][NextCacheThreads]_vars

\* the classifier called on one query after another
NextClassifier ==
    \/ ClassifyText
    \/ ClassifyAny

SpecClassifier == Init /\ [][NextClassifier]_vars

\* calls of one decorated function through its breaker and retry_async; the
\* event loop resumes a coroutine whose await has completed
NextRetry ==
    \/ \E c \in RetryCallers, func \in DecoratedFunctions : RetryEnter(c, func)
    \/ \E c \in RetryCallers : RetryAttemptOk(c)
    \/ \E c \in RetryCallers : RetryAttemptFails(c)
    \/ \E c \in RetryCallers : RetryWake(c)
    \/ \E c \in RetryCallers : RetryReturn(c)
    \/ RetryTick

\* fact store lookups, one after another
NextFactStore ==
    \/ \E t \in Triples : StoreInsert(t)
    \/ MainQueryByText
    \/ DbQueryByText
    \/ DbQueryByTriple
    \/ CacheTick

SpecFactStore == Init /\ [][NextFactStore]_vars

\* requests to the handler of main.py, one after another
NextMainHandler ==
    \/ MainGenerate
    \/ BreakerTick

SpecMainHandler == Init /\ [][NextMainHandler]_vars

\* calls of _truncate_query
NextTruncate ==
    \/ TruncateQuery

SpecTruncate == Init /\ [][NextTruncate]_vars

\* calls of get_complete_discovery_answer
NextDiscovery ==
    \/ DiscoveryAnswer

SpecDiscovery == Init /\ [][NextDiscovery]_vars

\* requests answered from the text of the engine
NextDirectAnswer ==
    \/ DirectAnswer

SpecDirectAnswer == Init /\ [][NextDirectAnswer]_vars

\* calls of create_consultation_request
NextConsultation ==
    \/ CreateConsultation

SpecConsultation == Init /\ [][NextConsultation]_vars

\* calls of _build_context_from_search_results
NextContext ==
    \/ BuildContext

SpecContext == Init /\ [][NextContext]_vars

\* calls that go through the response cache
NextResponseCache ==
    \/ CallDiscoveryEngine
    \/ CallWithSearchContext
    \/ GenerateTripleBasedAnswer

SpecResponseCache == Init /\ [][NextResponseCache]_vars

SpecRetry ==
    /\ Init /\ [][NextRetry]_vars
    /\ \A c \in RetryCallers : WF_vars(RetryAttemptOk(c) \/ RetryAttemptFails(c))
    /\ \A c \in RetryCallers : WF_vars(RetryWake(c))

-----------------------------------------------------------------------------
(* Properties *)

\* C1: a request classified is_sensitive and not should_try_rag_first makes no
\* call of get_complete_discovery_answer and is answered at once; when its
\* conversationHistory decodes to a list the answer is consultant_needed = true
\* with the template get_sensitive_response selects for the categories.
C1_SensitiveEscalatesWithoutEngine ==
    (sens.is_sensitive /\ ~sens.should_try_rag_first) =>
        /\ engineCalls = 0
        /\ hpc = "done"
        /\ req.hist = "list" =>
             /\ resp.status = 200
             /\ resp.consultant_needed
             /\ resp.answer = Template(get_sensitive_response(sens.categories))

C1_Witness ==
    /\ hpc = "done"
    /\ sens.is_sensitive /\ ~sens.should_try_rag_first
    /\ req.hist = "list"
    /\ Len(sens.categories) > 1
    /\ resp.consultant_needed
    /\ resp.answer = Template("T_specific_price")

\* C1 (as claimed): every request classified is_sensitive and not
\* should_try_rag_first, whatever its conversationHistory decodes to, is
\* answered consultant_needed = true with the selected template.
C1_SensitiveEscalatesForEveryHistory ==
    (sens.is_sensitive /\ ~sens.should_try_rag_first) =>
        /\ engineCalls = 0
        /\ resp.consultant_needed
        /\ resp.answer = Template(get_sensitive_response(sens.categories))

\* C2 (as claimed): a request classified should_try_rag_first calls the engine
\* exactly once, and when that attempt returned more than RagMinLength characters
\* the answer of the response is the text of that attempt.
C2_RagFirstCallsEngineOnce ==
    (hpc = "done" /\ sens.should_try_rag_first) =>
        /\ engineCalls = 1
        /\ (~ragResult.raised /\ ragResult.answer_text.len > RagMinLength
               /\ req.hist = "list")
             => resp.answer = ragResult.answer_text

\* C3 (as claimed): past authentication the handler raises nothing: it answers
\* with status 200, and a response with the error flag carries the generic-error
\* answer without consultant_needed.
C3_NeverPropagates ==
    (hpc = "done" /\ req.auth) =>
        /\ ~resp.raised
        /\ resp.status = 200
        /\ resp.error => (resp.answer = GenericErrorAnswer /\ ~resp.consultant_needed)

\* C4: a response with consultant_needed = true carries one of the fixed
\* escalation templates, never a text returned by the engine.
C4_ConsultantMeansTemplate ==
    resp.consultant_needed =>
        /\ resp.answer.kind = "template"
        /\ resp.answer \in { Template(n) : n \in TemplateNames }

C4_Witness ==
    /\ hpc = "done"
    /\ resp.consultant_needed
    /\ resp.engine_type = "rag_fallback_to_consultant"
    /\ ragResult.answer_text.kind = "provider"
    /\ ragResult.answer_text.strip > 0

\* C5: with calls made one after another, the breaker leaves CLOSED for OPEN
\* exactly on the failure that completes FailureThreshold failures in a row; a
\* success sets failure_count to 0; and while fewer than FailureThreshold failures
\* have occurred in a row the breaker is CLOSED.
C5_OpensExactlyAtThreshold ==
    /\ [](run < FailureThreshold => cbState = "CLOSED")
    /\ [](failure_count = run)
    /\ [][(cbState = "CLOSED" /\ cbState' = "OPEN") => run' = FailureThreshold]_vars
    /\ [][(cbState = "CLOSED" /\ run' = run + 1 /\ run' = FailureThreshold)
             => cbState' = "OPEN"]_vars
    /\ [][(\E c \in Callers : cpc[c] = "running" /\ cpc'[c] = "returned")
             => (failure_count' = 0 /\ cbState' = "CLOSED")]_vars

C5_Witness ==
    /\ cbState = "OPEN"
    /\ run = FailureThreshold
    /\ \E c \in Callers : cpc[c] = "raised"

\* C6: a call made while the breaker is OPEN and fewer than Timeout seconds have
\* passed since last_failure_time is rejected without running the wrapped
\* operation, and leaves state, failure_count and last_failure_time as they were.
C6_OpenWindowRejects ==
    [][\A c \in Callers :
          (cbState = "OPEN" /\ now - last_failure_time < Timeout
              /\ cpc[c] = "idle" /\ cpc'[c] # "idle")
          => /\ cpc'[c] = "rejected"
             /\ UNCHANGED <<cbState, failure_count, last_failure_time>>]_vars

C6_Witness ==
    /\ cbState = "OPEN"
    /\ now > last_failure_time
    /\ now - last_failure_time < Timeout
    /\ \E c \in Callers : cpc[c] = "rejected"

\* C7 (as claimed): a call that arrives while the breaker is HALF_OPEN, that is
\* while the trial call is still pending, is rejected without running the
\* wrapped operation.
C7_OneTrialInHalfOpen ==
    [][\A c \in Callers :
          (cbState = "HALF_OPEN" /\ cpc[c] = "idle" /\ cpc'[c] # "idle")
          => cpc'[c] = "rejected"]_vars

\* C8: a get(k) returns the value of the latest set(k, v, ttl) when fewer than ttl
\* seconds have passed since that set and the entry was not evicted or cleared,
\* and returns nothing otherwise; in particular nothing at or after the expiry.
C8_GetHonoursTtl ==
    lastCall.op = "get" =>
        LET e == live[lastCall.key] IN
        /\ lastCall.hit <=> (e # NoEntry /\ now < e.expires)
        /\ lastCall.hit => lastCall.value = e.value

C8_Witness ==
    /\ lastCall.op = "get"
    /\ ~lastCall.hit
    /\ live[lastCall.key] # NoEntry
    /\ now >= live[lastCall.key].expires

\* C9: the number of resident entries, expired ones included, never exceeds
\* max_size.
C9_SizeBounded == Len(cache) <= MaxSize

C9_Witness ==
    /\ lastCall.op = "set"
    /\ lastCall.evicted
    /\ Len(cache) = MaxSize

\* C10 (as claimed): under every interleaving of the steps of concurrent get and
\* set calls, no call fails because another call removed the key it reads or
\* deletes, no value is returned at or after its expiry, and the size never
\* exceeds max_size.
C10_ThreadsAsIfOneAtATime ==
    /\ \A t \in Threads : tloc[t].err = "none"
    /\ \A t \in Threads : ~tloc[t].stale
    /\ Len(cache) <= MaxSize

\* C11 (as claimed): the query  프리미엄 플랜이 정확히 얼마예요?  is classified
\* is_sensitive, with query_type specific_price and confidence at least 0.9.
C11_PremiumPriceHighConfidence ==
    cq.text = PremiumPlanExactPrice =>
        /\ cres.is_sensitive
        /\ cres.query_type = "specific_price"
        /\ cres.confidence >= 90

\* C12 (as claimed): a query in which a specific-price, discount or consultant
\* keyword occurs, or which a specific-price or consultant pattern matches, is
\* classified is_sensitive and not should_try_rag_first, whatever else it contains.
C12_SensitiveRulesRouteToConsultant ==
    (cq # NoQuery /\ (cq.f.nsp > 0 \/ cq.f.ndisc > 0 \/ cq.f.ncons > 0
                        \/ cq.f.patSpec \/ cq.f.patCons)) =>
        /\ cres.is_sensitive
        /\ ~cres.should_try_rag_first

\* C13 (as claimed): an invocation that fails with an error that is not
\* transient (a provider 400, 401 or 403, a query-syntax error of the fact
\* store) is not followed by another attempt: the call raises at once.
C13_RetriesOnlyTransient ==
    [][\A c \in RetryCallers :
          (invocations'[c] = invocations[c] + 1 /\ rpc'[c] # "returned"
              /\ ~Transient(last_exception'[c]))
          => rpc'[c] = "raised"]_vars

\* C14: a call through the breaker and retry_async invokes the function at most
\* MaxAttempts times; after a result it invokes nothing more; it raises only
\* after the MaxAttempts-th failed invocation; a failed attempt that is retried
\* leaves failure_count alone and the raising step adds exactly 1 to it; and a
\* call that has started ends with a result or an exception.
C14_RetryBoundedOneFailure ==
    /\ [](\A c \in RetryCallers : invocations[c] <= MaxAttempts)
    /\ [](\A c \in RetryCallers : rpc[c] = "raised" => invocations[c] = MaxAttempts)
    /\ [][\A c \in RetryCallers :
             rpc[c] = "returned" => invocations'[c] <= invocations[c]]_vars
    /\ [][\A c \in RetryCallers :
             (rpc[c] = "calling" /\ rpc'[c] = "sleeping")
             => failure_count' = failure_count]_vars
    /\ [][\A c \in RetryCallers :
             (rpc[c] # "raised" /\ rpc'[c] = "raised")
             => failure_count' = failure_count + 1]_vars
    /\ \A c \in RetryCallers :
          (rpc[c] \in {"calling", "sleeping"}) ~> (rpc[c] \in {"returned", "raised"})

C14_Witness ==
    \E c \in RetryCallers :
        /\ rpc[c] = "raised"
        /\ invocations[c] = MaxAttempts
        /\ attempt[c] = MaxAttempts - 1
        /\ failure_count = 1

\* C15 (as claimed): a lookup whose store query raised gives its caller an
\* exception, never a list; an empty list means the query ran (or was answered
\* from the cache, or all three fields were blank).
C15_StoreFailureIsNotEmptyResult ==
    lookup.store_raised => lookup.raised # "none"

\* C16 (as claimed): when the lookup of a request fails with
\* SpannerConnectionError or TripleExtractionError, or is rejected by the open
\* breaker, and the provider answers, the request is answered from retrieval
\* alone instead of failing.
C16_LookupFailureDegrades ==
    (mreq.lookup \in {"SpannerConnectionError", "TripleExtractionError", "HTTPException"}
        /\ mreq.hist = "list" /\ mreq.vertex = "ok")
    => (mresp.status = 200 /\ mresp.answer = "retrieval_only")

\* C17 (as claimed): the list a text lookup returns holds no triple twice,
\* whatever rows the table holds.
C17_TextLookupHasNoDuplicates ==
    lookup.func \in {"main.query_spanner_triples", "db.query_spanner_triples"}
        => NoDuplicates(lookup.triples)

\* C18: _truncate_query returns text of length <= max_length for every query
\* longer than max_length, and returns every query of length <= max_length
\* unchanged
C18_TruncateWithinMaxLength ==
    tcall # NoTruncateCall =>
        /\ TextLen(tcall.query) > tcall.max_length
               => TextLen(tresult) <= tcall.max_length
        /\ TextLen(tcall.query) <= tcall.max_length => tresult = tcall.query

\* a query longer than the cap for which no sentence boundary fits was cut hard
C18_Witness ==
    /\ tcall # NoTruncateCall
    /\ TextLen(tcall.query) > tcall.max_length
    /\ tresult = HardCut(tcall.query, tcall.max_length)
    /\ TextLen(tresult) = tcall.max_length - Margin + 3

\* C19: when the generation call yields no citations and the search call
\* returned documents, the citations returned are made only from the first 5
\* search results and no two of them have the same URI
C19_SynthesizedCitationsDistinct ==
    dresult.synthesized =>
        /\ \A k \in 1..Len(dresult.citations) :
               \E i \in 1..Min(SynthLimit, Len(dresult.search_results)) :
                   /\ dresult.citations[k].uri = DocUri(dresult.search_results[i])
                   /\ dresult.citations[k].title = DocTitle(dresult.search_results[i], i)
        /\ \A j, k \in 1..Len(dresult.citations) :
               j # k => dresult.citations[j].uri # dresult.citations[k].uri

\* C20: for an answer of the engine that contains an avoidance phrase and no
\* domain keyword, validate_response_relevance returns false and the answer
\* returned for the request is the fixed decline text, never the text of the engine
C20_AvoidanceAnswerReplaced ==
    (/\ areq.called /\ ~areq.raised /\ areq.hist = "list"
     /\ has_avoid_keywords(areq.answer_text)
     /\ ~has_relevant_content(areq.answer_text))
    => /\ ~validate_response_relevance(<<>>, areq.answer_text)
       /\ aresp.answer = DefaultAnswerText
       /\ aresp.answer # areq.answer_text

\* C21: no response of the /api/generate handler carries the message of an
\* exception: on the RAG-first error path and on the generic error fallback
\* neither the answer nor a metadata field holds str(e)
C21_NoExceptionTextInResponse ==
    resp.status # 0 => ~resp.meta_error

\* C22: a request that needs the guarded lookup while the breaker is OPEN is
\* answered with an escalation or a generic fallback message, never with an
\* HTTP 5xx status
C22_OpenBreakerNeverServerError ==
    mreq.lookup = "HTTPException" => mresp.status < 500

\* C23: create_consultation_request never raises; a delivery failure, an
\* exception and a missing webhook URL each give success = false with an error
\* detail, and without a configured webhook URL no POST is sent
C23_ConsultationNeverRaises ==
    kcall.called =>
        /\ ~kresult.raised
        /\ kresult.success => kcall.url = "set" /\ kcall.reply = "200"
        /\ ~kresult.success => kresult.error # "none"
        /\ kcall.url # "set" => kresult.posts = <<>>

\* the POST was made and raised: the call returned success = false
C23_Witness ==
    /\ kcall.called /\ kcall.url = "set" /\ kcall.reply = "raises"
    /\ kresult.posts # <<>>
    /\ ~kresult.raised /\ ~kresult.success /\ kresult.error = "exception"

\* C28: with a configured webhook that answers 200, create_consultation_request
\* with any conversation history, empty or not, delivers one notification that
\* holds the current query and the most recent turns of the history in their
\* order, and returns success = true
C28_NotificationDelivered ==
    (kcall.called /\ kcall.url = "set" /\ kcall.reply = "200") =>
        /\ kresult.success
        /\ Len(kresult.posts) = 1
        /\ kresult.posts[1].query = kcall.user_query
        /\ \E n \in 0..Len(kcall.conversation_history) :
               kresult.posts[1].turns =
                   SubSeq(kcall.conversation_history,
                          Len(kcall.conversation_history) - n + 1,
                          Len(kcall.conversation_history))

\* C24: whenever the handler takes the escalating branch for a request
\* (sensitive query, insufficient RAG answer or RAG error),
\* create_consultation_request has been invoked before the canned message is
\* returned
C24_EscalationInvokesConsultation ==
    (resp.status = 200 /\ resp.consultant_needed) => kcall.called

\* C25: under every interleaving of concurrent calls through one breaker its
\* state changes only CLOSED -> OPEN, OPEN -> HALF_OPEN, HALF_OPEN -> CLOSED or
\* HALF_OPEN -> OPEN; an OPEN breaker never becomes CLOSED directly, even when
\* a call that started before it opened succeeds afterwards
C25_StateChangesAlongLifecycle ==
    [][cbState' # cbState =>
           <<cbState, cbState'>> \in { <<"CLOSED", "OPEN">>, <<"OPEN", "HALF_OPEN">>,
                                       <<"HALF_OPEN", "CLOSED">>, <<"HALF_OPEN", "OPEN">> }]_vars

\* C26: is_sensitive equals (a category was recorded or a specific-price
\* pattern matched) and not (should_try_rag_first and no specific-price pattern
\* matched); so is_sensitive and should_try_rag_first are both true only when a
\* specific-price pattern matched
C26_SensitiveFormula ==
    cq # NoQuery =>
        /\ cres.is_sensitive <=>
               /\ Len(cres.categories) > 0 \/ cq.f.patSpec
               /\ ~(cres.should_try_rag_first /\ ~cq.f.patSpec)
        /\ (cres.is_sensitive /\ cres.should_try_rag_first) => cq.f.patSpec

\* a query with a category recorded and RAG first, no specific-price pattern:
\* is_sensitive was forced to false
C26_Witness ==
    /\ cq # NoQuery
    /\ Len(cres.categories) > 0 /\ cres.should_try_rag_first /\ ~cq.f.patSpec
    /\ ~cres.is_sensitive

\* C27: for every list of search results and every summary the context
\* returned by _build_context_from_search_results, separators included, is at
\* most max_context_length long
C27_ContextWithinBudget ==
    bcall.called => JoinedLen(bresult) <= bcall.max_context_length

\* C30: a hit of the response cache returns exactly the response that the call
\* which cached it produced for that key.
C30_HitReturnsStoredResponse ==
    rcall.hit => rcall.value = rcall.stored

\* C29: when calls keep arriving and the wrapped operation succeeds from some
\* point on, a call that arrives at an OPEN breaker once timeout has elapsed
\* is admitted as a trial (HALF_OPEN), and an OPEN breaker always returns to
\* CLOSED with failure_count 0
C29_OpenBreakerRecovers ==
    /\ [][\A c \in RecoveryCallers :
            (/\ cbState = "OPEN" /\ ~InOpenWindow(now, last_failure_time)
             /\ cpc[c] = "idle" /\ cpc'[c] # "idle")
            => (cpc'[c] = "running" /\ cbState' = "HALF_OPEN")]_vars
    /\ (cbState = "OPEN") ~> (cbState = "CLOSED" /\ failure_count = 0)

\* the dependency has recovered, timeout has elapsed since the last failure and
\* the trial call of the HALF_OPEN breaker is in flight
C29_Witness ==
    /\ cbState = "HALF_OPEN" /\ trial # {}
    /\ now > RecoveryTime
    /\ ~InOpenWindow(now, last_failure_time)
    /\ Trips(failure_count)

=============================================================================
